---- MODULE Spec2Model ----
(***************************************************************************)
(* Verification model of metoro-io/mcp-golang.                             *)
(*                                                                         *)
(* Part 1: the stateless-HTTP bridge.  One transport instance serves       *)
(* concurrent HTTP calls; every call runs the entry point of its           *)
(* implementation (ChiTransport.Handler, GinTransport.Handler and the      *)
(* first HTTPTransport.handleRequest over BaseTransport.HandleMessage; the *)
(* embedded-baseTransport GinTransport.Handler over                        *)
(* baseTransport.handleMessage; the second HTTPTransport.handleRequest     *)
(* without a slot table), one step per statement that touches shared       *)
(* state.  Replies are produced by Send calls running in goroutines of     *)
(* their own.                                                              *)
(***************************************************************************)
EXTENDS Integers, Sequences, FiniteSets, TLC

\* ------------------------------------------------------------------ bounds
\* Stand-in for the probe limit 1000000 of "for key < 1000000".
MaxKey == 1
\* Number of HTTP calls (goroutines running an entry point).
NCalls == 3
\* Number of Send calls.
NSends == 2
\* Number of goroutines in all: HTTP calls and Send calls.
MaxProcs == 4
\* Number of Close() calls on one transport.
MaxCloses == 2
\* Number of goroutines that call Request on one Protocol Engine.
NReqs == 3
\* Number of replies the peer sends in all.
MaxReplies == 2
\* Number of Requests the Client sends through its API methods.
MaxSent == 3
\* Number of Initialize calls on one Client.
MaxInits == 2
\* Number of names a registry can hold (names are 1..NKeys in lexicographic order).
NKeys == 3
\* Largest pagination limit.
MaxLimit == 2
\* Number of Register*/Deregister* calls on one Server.
MaxMuts == 2
\* Number of event-stream sessions the host can open.
NSessions == 2
\* Number of POSTs made to the host or to a transport.
NPosts == 2
\* Number of lines the child writes on its stdout.
MaxLines == 2
\* Number of messages the caller sends on the write channel.
MaxWrites == 2
\* The n of the maxLength(n) rule of the argument structs.
MaxLen == 1
\* Number of Requests the peer sends to the engine.
NInbound == 2

Calls == 1..NCalls
Senders == (NCalls + 1)..(NCalls + NSends)

\* ---------------------------------------------------------------- values
NoProc == 0
NoCall == 0
\* the nil channel: a map lookup of an absent key
NilChan == 0
\* a nil *RequestId
NoId == -1
\* the local variable key before the probe has run
NoKey == -1
\* no message; method and params are "" in a message that has none
NoMsg == [type |-> "nil", id |-> 0, method |-> "", params |-> "", for |-> NoCall]

\* The implementation a transport instance is built from:
\*  "HandleMessage"  BaseTransport.HandleMessage under ChiTransport.Handler and
\*                   GinTransport.Handler; the first HTTPTransport.handleRequest
\*                   has the same statements inline;
\*  "handleMessage"  baseTransport.handleMessage under the Handler of the
\*                   GinTransport that embeds baseTransport;
\*  "handleRequest"  the second HTTPTransport.handleRequest, which keeps no
\*                   slot table.
Impls == {"HandleMessage", "handleMessage", "handleRequest"}
Exported(i) == i = "HandleMessage"
Embedded(i) == i = "handleMessage"

\* A client id that is no slot key of the model.
FarId == MaxKey + 6
\* Client ids a body can carry: one that is also a slot key, one that is not.
ClientIds == {0, FarId}

\* An HTTP body.  json is FALSE for bytes that are not JSON ("invalid
\* json"); otherwise the body is a JSON object and the four fields tell which
\* members it has (id = NoId: no id member; method = "": no method member;
\* params = "": no params member).
Bodies ==
    { [json |-> FALSE, method |-> "", params |-> "", id |-> NoId,
       result |-> FALSE, error |-> FALSE] }
    \cup
    [json : {TRUE}, method : {"", "m"}, params : {"", "p"},
     id : ClientIds \cup {NoId}, result : BOOLEAN, error : BOOLEAN]

VARIABLES
    impl,         \* which entry point / implementation this instance is
    handlerSet,   \* MessageHandler != nil
    mu,           \* sync.RWMutex: the goroutine inside Lock()..Unlock()
    responseMap,  \* ResponseMap: slot key -> channel
    nextChan,     \* identity of the next channel make(chan) returns
    call,         \* per HTTP call: position and locals
    snd,          \* per Send call: position and locals
    crashed,      \* the runtime has thrown "concurrent map read and map write"
    codec,        \* one message on its way through MarshalJSON and a decoder
    closed,       \* the close callback and the Close() calls made so far
    engine,       \* Protocol Engine: id counter, pending-request table, inbound replies
    rq,           \* per caller of Request: position, id and outcome
    serve,        \* Protocol Engine: handler registry and the inbound requests
    client,       \* Client: initialized flag, position, what it has sent
    registry,     \* Server: the three registries, what was broadcast, list results
    sse,          \* event-stream host: session table, transports, streams, POSTs
    stdio,        \* StdioClient: context, pipes, child, goroutines, Close
    validated     \* validateStruct: the argument and the error returned

\* the state of the stateless-HTTP bridge
httpVars == <<impl, handlerSet, mu, responseMap, nextChan, call, snd, crashed>>

\* the state of the Protocol Engine
engineVars == <<engine, rq, serve>>

\* the state of the server registry, the event-stream host and the stdio client
appVars == <<registry, sse, stdio, validated>>

vars == <<impl, handlerSet, mu, responseMap, nextChan, call, snd, crashed,
          codec, closed, engine, rq, serve, client, registry, sse, stdio,
          validated>>

\* ------------------------------------------------------------ decoding
\* json.Unmarshal(body, &v) for v one of BaseJSONRPCRequest,
\* BaseJSONRPCNotification, BaseJSONRPCResponse, BaseJSONRPCError: the
\* structs have no UnmarshalJSON of their own, so decoding succeeds for every
\* JSON object (absent members keep their zero value) and fails for bytes
\* that are not JSON.
UnmarshalOK(b) == b.json

\* The value of an Id field (RequestId, not a pointer) after decoding.
IdField(b) == IF b.id = NoId THEN 0 ELSE b.id

\* The discrimination rule of the data model:
\* method and no id: notification; method and id: request; error and id:
\* error; result and id: response; anything else is no message.
RuleKind(b) ==
    IF ~b.json THEN "invalid"
    ELSE IF b.method # "" /\ b.id = NoId THEN "notification"
    ELSE IF b.method # "" /\ b.id # NoId THEN "request"
    ELSE IF b.error /\ b.id # NoId THEN "error"
    ELSE IF b.result /\ b.id # NoId THEN "response"
    ELSE "invalid"

\* BaseTransport.HandleMessage and the first HTTPTransport.handleRequest:
\* try request, notification, response, error in this order, the first
\* json.Unmarshal that succeeds wins.
KindExported(b) ==
    IF UnmarshalOK(b) THEN "request"
    ELSE IF UnmarshalOK(b) THEN "notification"
    ELSE IF UnmarshalOK(b) THEN "response"
    ELSE IF UnmarshalOK(b) THEN "error"
    ELSE "invalid"

\* The second HTTPTransport.handleRequest: a request needs a non-zero id.
KindPlain(b) ==
    IF UnmarshalOK(b) /\ IdField(b) # 0 THEN "request"
    ELSE IF UnmarshalOK(b) THEN "notification"
    ELSE IF UnmarshalOK(b) THEN "response"
    ELSE IF UnmarshalOK(b) THEN "error"
    ELSE "invalid"

\* baseTransport.handleMessage: decode into JSONRPCCommon (Id and Error are
\* pointers, Result is nil when absent), then the switch.
KindEmbedded(b) ==
    IF ~UnmarshalOK(b) THEN "parse-error"
    ELSE IF b.method # "" /\ b.id # NoId THEN "request"
    ELSE IF b.method # "" /\ b.id = NoId THEN "notification"
    ELSE IF b.result /\ b.id # NoId THEN "response"
    ELSE IF b.error /\ b.id # NoId THEN "error"
    ELSE "invalid"

\* ----------------------------------------------------------- slot probe
RECURSIVE ProbeFrom(_, _)
ProbeFrom(m, k) ==
    IF k < MaxKey /\ k \in DOMAIN m THEN ProbeFrom(m, k + 1) ELSE k

\* "var key int64 = 0; for key < 1000000 { if absent break; key++ }"
Probe(m) == ProbeFrom(m, 0)

\* m[k] = c, adding k to the map when it is absent
MapPut(m, k, c) == [x \in (DOMAIN m) \cup {k} |-> IF x = k THEN c ELSE m[x]]

\* delete(m, k)
MapDelete(m, k) == [x \in (DOMAIN m) \ {k} |-> m[x]]

\* m[k] of a Go map: the zero value for an absent key
MapGet(m, k) == IF k \in DOMAIN m THEN m[k] ELSE NilChan

\* ------------------------------------------------------------------ Init
InitCall ==
    [pc |-> "idle", httpMethod |-> "", body |-> CHOOSE b \in Bodies : ~b.json,
     key |-> NoKey, prevId |-> NoId, handler |-> FALSE, ch |-> NilChan,
     out |-> NoMsg, resp |-> NoMsg, status |-> 0, delivered |-> <<>>]

InitSend == [pc |-> "idle", msg |-> NoMsg, ch |-> NilChan]

\* No message is being encoded.
IdleCodec ==
    [pc |-> "idle", dec |-> "", msg |-> {}, bytes |-> {}, out |-> {}]

\* No close handler is set and Close() has not been called.
InitClosed == [handlerSet |-> FALSE, calls |-> 0, callbacks |-> 0]

\* NewBaseTransport / newBaseTransport / NewHTTPTransport: an empty slot
\* table, no handlers.
InitTransport ==
    /\ impl \in Impls
    /\ handlerSet = FALSE
    /\ mu = NoProc
    /\ responseMap = [k \in {} |-> NilChan]
    /\ nextChan = 1
    /\ call = [h \in Calls |-> InitCall]
    /\ snd = [s \in Senders |-> InitSend]
    /\ crashed = FALSE
    /\ closed = InitClosed

\* The callers of Request, and the ids of the Requests the peer sends.
Reqs == 1..NReqs
InIds == 1..NInbound
Methods == {"a", "b"}

\* no outcome yet
NoOutcome == [kind |-> "none", id |-> 0, n |-> 0]

\* A new Protocol Engine: ids start at 1, nothing is pending.
InitEngine ==
    /\ engine = [nextId |-> 1, allocs |-> <<>>, pending |-> [i \in {} |-> 0],
                 sent |-> {}, inbox |-> {}, delivered |-> {}, dropped |-> {}]
    /\ rq = [c \in Reqs |->
                [pc |-> "idle", id |-> 0, out |-> NoOutcome, cancelled |-> FALSE]]
    /\ serve = [registry |-> {},
                inreq |-> [i \in InIds |-> [pc |-> "none", method |-> "", found |-> FALSE]],
                outbox |-> <<>>, invoked |-> {}]

\* NewClient: not initialized, nothing sent.
InitClient ==
    client = [pc |-> "idle", initialized |-> FALSE, sent |-> << >>,
              inits |-> 0, err |-> "", capabilities |-> "nil", connects |-> 0]

\* The kinds of registry and the names and descriptions of their items.
Kinds == {"tools", "prompts", "resources"}
Keys == 1..NKeys
Descs == {"d1", "d2"}

\* No list call has returned yet; no traversal is under way.
NoList == [kind |-> "", cursor |-> {}, err |-> "", page |-> << >>, next |-> {}]
NoWalk == [active |-> FALSE, stale |-> FALSE, seen |-> << >>, next |-> {},
           done |-> FALSE]

\* NewServer: empty registries, not serving, no pagination limit.
NewServer ==
    [serving |-> FALSE, caps |-> {}, limit |-> {},
     items |-> [k \in Kinds |-> {}],
     latest |-> [k \in Kinds |-> [n \in Keys |-> ""]],
     calls |-> 0, muts |-> << >>, sent |-> << >>, err |-> "",
     last |-> NoList, walk |-> NoWalk]

InitRegistry == registry = NewServer

\* The sessions (by the order their transports are created in) and the POSTs.
Sess == 1..NSessions
Posts == 1..NPosts

\* A transport that does not exist yet; a POST that was not made yet.
NoTransport == [pc |-> "none", id |-> 0, stream |-> << >>, handled |-> << >>,
                errors |-> 0, sendErr |-> ""]
NoPost == [pc |-> "none", to |-> 0, sid |-> 0, status |-> 0, err |-> "",
           bad |-> FALSE, dispatched |-> {}]

\* sessionList = make(map[string]*sse.SSEServerTransport): empty.
InitSse ==
    sse = [table |-> [i \in {} |-> 0],
           tr |-> [t \in Sess |-> NoTransport],
           post |-> [q \in Posts |-> NoPost],
           replied |-> {}]

\* NewStdioClient has returned: the child runs, both goroutines are started.
InitStdio ==
    stdio = [ctx |-> "live", stdin |-> "open", child |-> "running",
             desc |-> FALSE, out |-> <<>>, reader |-> "scan",
             writer |-> "select", close |-> "idle", err |-> "",
             hand |-> <<>>, whand |-> <<>>, wchan |-> "open", panic |-> FALSE,
             produced |-> <<>>, delivered |-> <<>>, taken |-> <<>>,
             written |-> <<>>, echoed |-> 0]

\* validateStruct has not been called.
InitValidated == validated = [pc |-> "idle", arg |-> <<>>, err |-> ""]

InitApp == InitRegistry /\ InitSse /\ InitStdio /\ InitValidated

Init ==
    /\ InitTransport
    /\ codec = IdleCodec
    /\ InitEngine
    /\ InitClient
    /\ InitApp

\* ------------------------------------------------------------ the mutex
Procs == Calls \cup Senders

\* t.mu.Lock() can return.  Sections under RLock() are single steps of the
\* model (they hold one read of shared state), so no reader is inside the
\* mutex between two steps.
CanLock == mu = NoProc

\* t.mu.RLock() can return
CanRLock == mu = NoProc

\* --------------------------------------------------------- HTTP calls
\* The message the decoded body becomes: what is handed to the handler
\* (request, notification; response and error in the try-each decoders) or
\* pushed on a response channel (response and error in baseTransport).
OutMsg(h, kind, b, k) ==
    IF kind = "request"
    THEN [type |-> "request", id |-> IF impl = "handleRequest" THEN IdField(b) ELSE k,
          method |-> b.method, params |-> b.params, for |-> h]
    ELSE IF kind = "notification"
    THEN [type |-> "notification", id |-> 0,
          method |-> b.method, params |-> b.params, for |-> NoCall]
    ELSE [type |-> kind, id |-> IdField(b), method |-> "", params |-> "", for |-> NoCall]

\* The kind the decoder of this implementation gives the body.
Kind(b) ==
    IF Exported(impl) THEN KindExported(b)
    ELSE IF Embedded(impl) THEN KindEmbedded(b)
    ELSE KindPlain(b)

\* The goroutines that have started.
Started ==
    { h \in Calls : call[h].pc # "idle" } \cup { s \in Senders : snd[s].pc # "idle" }

\* The locals of a call are dead once the entry point has returned.
Finish(c, st) ==
    [c EXCEPT !.pc = "done", !.status = st, !.key = NoKey, !.prevId = NoId,
              !.handler = FALSE, !.ch = NilChan, !.out = NoMsg]

\* Entry point up to the slot allocation: the method check and the read of
\* the body.  m is the HTTP method and b the body of the call.
HandlerEntry(h, m, b) ==
    /\ ~crashed
    /\ call[h].pc = "idle"
    /\ IF h = 1 THEN TRUE ELSE call[h - 1].pc # "idle"
    /\ call' = [call EXCEPT ![h] =
          [@ EXCEPT !.httpMethod = m,
                    !.body = b,
                    !.status = IF m # "POST" THEN 405 ELSE 0,
                    !.pc = IF m # "POST" THEN "done"
                           ELSE IF impl = "handleRequest" THEN "decode"
                           ELSE "lock"]]
    /\ UNCHANGED <<impl, handlerSet, mu, responseMap, nextChan, snd, crashed>>

\* t.mu.Lock(), before the probe and (baseTransport) before the delete
Lock(h) ==
    /\ ~crashed
    /\ call[h].pc \in {"lock", "dlock"}
    /\ CanLock
    /\ mu' = h
    /\ call' = [call EXCEPT ![h].pc = IF @ = "lock" THEN "probe" ELSE "delete"]
    /\ UNCHANGED <<impl, handlerSet, responseMap, nextChan, snd, crashed>>

\* the probe loop and "t.ResponseMap[key] = make(chan ...)"
ProbeInsert(h) ==
    /\ ~crashed
    /\ call[h].pc = "probe"
    /\ LET k == Probe(responseMap) IN
         /\ responseMap' = MapPut(responseMap, k, nextChan)
         /\ call' = [call EXCEPT ![h] = [@ EXCEPT !.key = k, !.pc = "unlock"]]
    /\ nextChan' = nextChan + 1
    /\ UNCHANGED <<impl, handlerSet, mu, snd, crashed>>

\* The id of the reply is set to the saved client id.  HandleMessage does so
\* whenever prevId is set; handleMessage only for a message that has a
\* JsonRpcResponse.
Restored(c) ==
    IF c.prevId # NoId /\ (Exported(impl) \/ c.resp.type = "response")
    THEN [c.resp EXCEPT !.id = c.prevId]
    ELSE c.resp

\* The restore of the id, the return of HandleMessage and the entry point's
\* json.Marshal and write of the reply.
Return(c) == Finish([c EXCEPT !.resp = Restored(c)], 200)

\* t.mu.Unlock() after the insert; in handleMessage also after the delete,
\* followed by the return.
Unlock(h) ==
    /\ ~crashed
    /\ call[h].pc \in {"unlock", "dunlock"}
    /\ mu' = NoProc
    /\ call' = [call EXCEPT ![h] =
          IF @.pc = "unlock" THEN [@ EXCEPT !.pc = "decode"] ELSE Return(@)]
    /\ UNCHANGED <<impl, handlerSet, responseMap, nextChan, snd, crashed>>

\* json.Unmarshal and the choice of the branch.
Decode(h) ==
    /\ ~crashed
    /\ call[h].pc = "decode"
    /\ LET b == call[h].body
           kind == Kind(b)
           out == OutMsg(h, kind, b, call[h].key)
       IN call' = [call EXCEPT ![h] =
            IF kind \in {"request", "notification", "response", "error"}
            THEN [@ EXCEPT !.out = out,
                           !.prevId = IF kind = "request" /\ impl # "handleRequest"
                                      THEN IdField(b) ELSE NoId,
                           !.pc = "rlock"]
            ELSE IF Exported(impl)
            THEN \* no branch taken: fall through to the receive
                 [@ EXCEPT !.pc = "wait"]
            ELSE IF Embedded(impl)
            THEN \* "failed to parse JSON" / "unrecognized type": the entry
                 \* point answers an error of HandleMessage with 500
                 Finish(@, 500)
            ELSE \* handleRequest: "Invalid JSON-RPC message"
                 Finish(@, 400)]
    /\ UNCHANGED <<impl, handlerSet, mu, responseMap, nextChan, snd, crashed>>

\* baseTransport routes a response or error body to a response channel
\* instead of the handler.
RoutesToChannel(h) ==
    Embedded(impl) /\ call[h].out.type \in {"response", "error"}

\* The holder of the mutex after "t.mu.RUnlock()", which precedes the call
\* of the handler and the channel send: nobody (a deferred RUnlock would
\* leave it with the call).
RUnlockDeferred(h) == h
RUnlock(h) == NoProc

\* t.mu.RLock(), the read under the read lock, t.mu.RUnlock(): the handler,
\* or in handleMessage's response and error branches
\* "responseChan, exists := t.responseMap[id]".
RLock(h) ==
    /\ ~crashed
    /\ call[h].pc = "rlock"
    /\ CanRLock
    /\ mu' = RUnlock(h)
    /\ call' = [call EXCEPT ![h] =
          IF RoutesToChannel(h)
          THEN IF call[h].out.id \in DOMAIN responseMap
               THEN [@ EXCEPT !.ch = responseMap[call[h].out.id], !.pc = "chsend"]
               ELSE \* "no matching request for response with id"
                    Finish(@, 500)
          ELSE [@ EXCEPT !.handler = handlerSet, !.pc = "invoke"]]
    /\ UNCHANGED <<impl, handlerSet, responseMap, nextChan, snd, crashed>>

\* "if handler != nil { handler(ctx, message) }" and what follows it up to
\* the next access to shared state.
Invoke(h) ==
    /\ ~crashed
    /\ call[h].pc = "invoke"
    /\ LET c == call[h]
           d == IF c.handler THEN Append(c.delivered, c.out) ELSE c.delivered
       IN call' = [call EXCEPT ![h] =
            IF Exported(impl)
            THEN [@ EXCEPT !.delivered = d, !.pc = "wait"]
            ELSE IF Embedded(impl) /\ c.out.type = "request"
            THEN [@ EXCEPT !.delivered = d, !.pc = "wait"]
            ELSE \* baseTransport: return nil, nil; handleRequest: WriteHeader(200)
                 Finish([@ EXCEPT !.delivered = d], 200)]
    /\ UNCHANGED <<impl, handlerSet, mu, responseMap, nextChan, snd, crashed>>

\* The operand of "<-t.ResponseMap[key]": a map read without the mutex.
WaitEval(h) ==
    /\ ~crashed
    /\ call[h].pc = "wait"
    /\ call' = [call EXCEPT ![h] =
          [@ EXCEPT !.ch = MapGet(responseMap, call[h].key), !.pc = "recv"]]
    /\ UNCHANGED <<impl, handlerSet, mu, responseMap, nextChan, snd, crashed>>

\* "delete(t.ResponseMap, key)"; in HandleMessage the return follows.
Delete(h) ==
    /\ ~crashed
    /\ call[h].pc = "delete"
    /\ responseMap' = MapDelete(responseMap, call[h].key)
    /\ call' = [call EXCEPT ![h] =
          IF Embedded(impl) THEN [@ EXCEPT !.pc = "dunlock"] ELSE Return(@)]
    /\ UNCHANGED <<impl, handlerSet, mu, nextChan, snd, crashed>>

\* ---------------------------------------------------------- Send calls
\* Requests that were handed to the message handler: <<call, slot id>>.
Handled ==
    UNION { { <<h, call[h].delivered[i].id>> :
                i \in { j \in 1..Len(call[h].delivered) :
                          call[h].delivered[j].type = "request" } } :
            h \in Calls }

\* The messages Send is called with: a Response or an Error carrying the id
\* of a request the handler has received (for = the call it answers), or a
\* Response with an id nobody asked for (for = NoCall).
SendMsgs ==
    { [type |-> t, id |-> r[2], method |-> "", params |-> "", for |-> r[1]] :
        t \in {"response", "error"}, r \in Handled }
    \cup
    { [type |-> "response", id |-> k, method |-> "", params |-> "", for |-> NoCall] :
        k \in 0..MaxKey }

\* Send up to the map lookup.  "key := message.JsonRpcResponse.Id"
\* dereferences a nil pointer for a message built by NewBaseMessageError;
\* the second HTTPTransport's Send only returns an error.
SendStart(s, m) ==
    /\ ~crashed
    /\ snd[s].pc = "idle"
    /\ IF s = NCalls + 1 THEN TRUE ELSE snd[s - 1].pc # "idle"
    /\ m \in SendMsgs
    /\ snd' = [snd EXCEPT ![s] =
          [@ EXCEPT !.msg = m,
                    !.pc = IF impl = "handleRequest" THEN "err"
                           ELSE IF m.type # "response" THEN "panic"
                           ELSE "lookup"]]
    /\ UNCHANGED <<impl, handlerSet, mu, responseMap, nextChan, call, crashed>>

\* "responseChannel := t.ResponseMap[int64(key)]", a map read without the
\* mutex, and the nil check.
SendLookup(s) ==
    /\ ~crashed
    /\ snd[s].pc = "lookup"
    /\ LET c == MapGet(responseMap, snd[s].msg.id) IN
         snd' = [snd EXCEPT ![s] =
            [@ EXCEPT !.ch = c, !.pc = IF c = NilChan THEN "err" ELSE "sending"]]
    /\ UNCHANGED <<impl, handlerSet, mu, responseMap, nextChan, call, crashed>>

\* After the receive: HandleMessage deletes at once, handleMessage locks.
AfterRecv == IF Embedded(impl) THEN "dlock" ELSE "delete"

\* "responseChannel <- message" in Send meets "<-t.ResponseMap[key]": the
\* channel is unbuffered, both sides proceed together.
Rendezvous(s, h) ==
    /\ ~crashed
    /\ snd[s].pc = "sending"
    /\ call[h].pc = "recv"
    /\ call[h].ch # NilChan
    /\ call[h].ch = snd[s].ch
    /\ call' = [call EXCEPT ![h] = [@ EXCEPT !.resp = snd[s].msg, !.pc = AfterRecv]]
    /\ snd' = [snd EXCEPT ![s] = [@ EXCEPT !.pc = "ok", !.ch = NilChan]]
    /\ UNCHANGED <<impl, handlerSet, mu, responseMap, nextChan, crashed>>

\* "responseChan <- responseMsg" of a response or error body in
\* handleMessage meets the receive of another call; the sending call then
\* returns nil, nil.
RendezvousBody(g, h) ==
    /\ ~crashed
    /\ g # h
    /\ call[g].pc = "chsend"
    /\ call[h].pc = "recv"
    /\ call[h].ch # NilChan
    /\ call[h].ch = call[g].ch
    /\ call' = [call EXCEPT
          ![h] = [@ EXCEPT !.resp = call[g].out, !.pc = AfterRecv],
          ![g] = Finish(@, 200)]
    /\ UNCHANGED <<impl, handlerSet, mu, responseMap, nextChan, snd, crashed>>

\* SetMessageHandler: the handler is stored under the exclusive lock.
SetMessageHandler ==
    /\ ~crashed
    /\ ~handlerSet
    /\ CanLock
    /\ handlerSet' = TRUE
    /\ UNCHANGED <<impl, mu, responseMap, nextChan, call, snd, crashed>>

\* -------------------------------------------------------- the data race
\* The access to the slot table a process makes in its next step.
Access(p) ==
    IF p \in Calls
    THEN IF call[p].pc \in {"probe", "delete"} THEN "write"
         ELSE IF call[p].pc = "wait" THEN "read"
         ELSE IF call[p].pc = "rlock" /\ RoutesToChannel(p) /\ CanRLock THEN "read"
         ELSE "none"
    ELSE IF snd[p].pc = "lookup" THEN "read" ELSE "none"

\* The process makes that access inside the mutex: after Lock(), or in a
\* section under RLock().
Locked(p) ==
    IF p \in Calls
    THEN mu = p \/ (call[p].pc = "rlock" /\ RoutesToChannel(p))
    ELSE FALSE

\* Two processes are about to access the map, one of them writes, and they
\* are not both inside the mutex.
Race ==
    \E p, q \in Procs :
        /\ p # q
        /\ Access(p) # "none"
        /\ Access(q) = "write"
        /\ (~Locked(p) \/ ~Locked(q))

\* A Go map that is read or written while another goroutine writes it: the
\* runtime may go on with either order of the two accesses (the interleaving
\* of the steps above) or stop the process with "fatal error: concurrent map
\* read and map write" / "concurrent map writes".
Throw ==
    /\ ~crashed
    /\ Race
    /\ crashed' = TRUE
    /\ UNCHANGED <<impl, handlerSet, mu, responseMap, nextChan, call, snd>>

\* ------------------------------------------------------------------ Next
HTTPMethods == {"POST", "GET"}

\* Fewer than MaxProcs goroutines have started.
Room == Cardinality(Started) < MaxProcs

\* The steps of a call after its entry, of a Send after its start, and the
\* runtime's.
Steps ==
    \/ \E h \in Calls : Lock(h)
    \/ \E h \in Calls : ProbeInsert(h)
    \/ \E h \in Calls : Unlock(h)
    \/ \E h \in Calls : Decode(h)
    \/ \E h \in Calls : RLock(h)
    \/ \E h \in Calls : Invoke(h)
    \/ \E h \in Calls : WaitEval(h)
    \/ \E h \in Calls : Delete(h)
    \/ \E s \in Senders : SendLookup(s)
    \/ \E s \in Senders : \E h \in Calls : Rendezvous(s, h)
    \/ SetMessageHandler
    \/ Throw

\* Bodies of the concurrent model: a request, and a response addressed to
\* slot 0.
BridgeBodies ==
    { b \in Bodies : /\ ~(b.result /\ b.error)
                     /\ b.params = ""
                     /\ \/ RuleKind(b) = "request" /\ b.id = FarId /\ ~b.result /\ ~b.error
                        \/ RuleKind(b) = "response" /\ b.id = 0 }

\* A transport with a slot table.
InitBridge == Init /\ ~(impl = "handleRequest")

\* Concurrent HTTP calls to a transport whose handler is set, and Send
\* calls.
NextBridge ==
    /\ \/ \E h \in Calls : \E b \in BridgeBodies :
             Room /\ handlerSet /\ HandlerEntry(h, "POST", b)
       \/ \E s \in Senders : \E m \in SendMsgs : Room /\ SendStart(s, m)
       \/ \E g \in Calls : \E h \in Calls : RendezvousBody(g, h)
       \/ Steps
    /\ UNCHANGED <<codec, closed, engineVars, client, appVars>>

SpecBridge == InitBridge /\ [][NextBridge]_vars

\* One HTTP call of any method and body to a transport of any of the
\* implementations, with or without a handler, and Send calls.
NextEntry ==
    /\ \/ \E m \in HTTPMethods : \E b \in Bodies : HandlerEntry(1, m, b)
       \/ \E s \in Senders : \E m \in SendMsgs : SendStart(s, m)
       \/ Steps
    /\ UNCHANGED <<codec, closed, engineVars, client, appVars>>

SpecEntry == Init /\ [][NextEntry]_vars

\* The call whose handler runs and the call that handler makes on its own
\* transport, with a handler that is set at any time and the Send of a reply
\* to a request the handler got, on a transport of any of the
\* implementations.
Nested == {1, 2}

NextHandler ==
    /\ \/ \E h \in Nested : \E b \in BridgeBodies : HandlerEntry(h, "POST", b)
       \/ \E m \in {x \in SendMsgs : x.for # NoCall} : SendStart(NCalls + 1, m)
       \/ \E g \in Calls : \E h \in Calls : RendezvousBody(g, h)
       \/ Steps
    /\ UNCHANGED <<codec, closed, engineVars, client, appVars>>

SpecHandler == Init /\ [][NextHandler]_vars


\* ------------------------------------------------------- the message codec
\* Part 2: BaseJsonRpcMessage.MarshalJSON and the decoders that turn bytes
\* back into a message.  A pointer field of the union is a set: empty for
\* nil, one struct otherwise.
CodecIds == {0, 1}
CodecMethods == {"m", "n"}

ReqStructs == [id : CodecIds, method : CodecMethods, params : {"", "p"}]
NoteStructs == [method : CodecMethods, params : {"", "p"}]
RespStructs == [id : CodecIds, result : {"r", "s"}]
ErrStructs == [id : CodecIds, code : {1, 2}]

\* nil or a pointer to one struct of S
Ptr(S) == {{}} \cup { {x} : x \in S }

MessageTypes == {"request", "notification", "response", "error"}

\* BaseJsonRpcMessage values, the malformed ones included.
Unions ==
    [Type : MessageTypes \cup {"bogus"},
     JsonRpcRequest : Ptr(ReqStructs),
     JsonRpcNotification : Ptr(NoteStructs),
     JsonRpcResponse : Ptr(RespStructs),
     JsonRpcError : Ptr(ErrStructs)]

\* The bytes json.Marshal writes, as the JSON value they are: "null" for a
\* nil pointer, else an object with the members of the struct (params is
\* omitempty; id, method, result and error are always written).  The record
\* has the fields of an HTTP body, and the member values besides.
JsonNull ==
    [json |-> TRUE, method |-> "", params |-> "", id |-> NoId,
     result |-> FALSE, error |-> FALSE, resultVal |-> "", code |-> 0]

MarshalRequest(p) ==
    IF p = {} THEN JsonNull
    ELSE LET r == CHOOSE x \in p : TRUE IN
         [JsonNull EXCEPT !.id = r.id, !.method = r.method, !.params = r.params]

MarshalNotification(p) ==
    IF p = {} THEN JsonNull
    ELSE LET r == CHOOSE x \in p : TRUE IN
         [JsonNull EXCEPT !.method = r.method, !.params = r.params]

MarshalResponse(p) ==
    IF p = {} THEN JsonNull
    ELSE LET r == CHOOSE x \in p : TRUE IN
         [JsonNull EXCEPT !.id = r.id, !.result = TRUE, !.resultVal = r.result]

MarshalError(p) ==
    IF p = {} THEN JsonNull
    ELSE LET r == CHOOSE x \in p : TRUE IN
         [JsonNull EXCEPT !.id = r.id, !.error = TRUE, !.code = r.code]

\* MarshalJSON: the switch on m.Type; the result is the set of byte strings
\* returned, empty when MarshalJSON returns the error "unknown message type".
MarshalJSON(m) ==
    IF m.Type = "request" THEN {MarshalRequest(m.JsonRpcRequest)}
    ELSE IF m.Type = "notification" THEN {MarshalNotification(m.JsonRpcNotification)}
    ELSE IF m.Type = "response" THEN {MarshalResponse(m.JsonRpcResponse)}
    ELSE IF m.Type = "error" THEN {MarshalError(m.JsonRpcError)}
    ELSE {}

\* HTTPClientTransport.Send: try response, error, notification, request in
\* this order, the first json.Unmarshal that succeeds wins.
KindClient(b) ==
    IF UnmarshalOK(b) THEN "response"
    ELSE IF UnmarshalOK(b) THEN "error"
    ELSE IF UnmarshalOK(b) THEN "notification"
    ELSE IF UnmarshalOK(b) THEN "request"
    ELSE "invalid"

\* The decoders: the three server-side ones and the client's Send.
Decoders == Impls \cup {"Send"}

KindBy(d, b) ==
    IF d = "Send" THEN KindClient(b)
    ELSE IF Exported(d) THEN KindExported(b)
    ELSE IF Embedded(d) THEN KindEmbedded(b)
    ELSE KindPlain(b)

\* The struct a decoder fills from the bytes for the kind it has chosen,
\* flattened: a member the struct does not have is NoId, "" or 0.
StructOf(kind, b) ==
    IF kind = "request"
    THEN [type |-> kind, id |-> IdField(b), method |-> b.method,
          params |-> b.params, result |-> "", code |-> 0]
    ELSE IF kind = "notification"
    THEN [type |-> kind, id |-> NoId, method |-> b.method,
          params |-> b.params, result |-> "", code |-> 0]
    ELSE IF kind = "response"
    THEN [type |-> kind, id |-> IdField(b), method |-> "",
          params |-> "", result |-> b.resultVal, code |-> 0]
    ELSE [type |-> kind, id |-> IdField(b), method |-> "",
          params |-> "", result |-> "", code |-> b.code]

\* The decoded message, or nothing when the decoder rejects the bytes.
Decoded(d, b) ==
    IF KindBy(d, b) \in MessageTypes THEN {StructOf(KindBy(d, b), b)} ELSE {}

\* A message and a decoder are chosen.
InitCodec ==
    /\ InitTransport
    /\ impl = "HandleMessage"
    /\ \E m \in Unions : \E d \in Decoders :
          codec = [pc |-> "start", dec |-> d, msg |-> {m}, bytes |-> {}, out |-> {}]
    /\ InitEngine
    /\ InitClient
    /\ InitApp

\* json.Marshal(message)
Marshal ==
    /\ codec.pc = "start"
    /\ LET m == CHOOSE x \in codec.msg : TRUE
           bs == MarshalJSON(m)
       IN codec' = [codec EXCEPT !.bytes = bs,
                                 !.pc = IF bs = {} THEN "encode-error" ELSE "encoded"]
    /\ UNCHANGED <<httpVars, closed, engineVars, client, appVars>>

\* the decoder applied to the bytes
Unmarshal ==
    /\ codec.pc = "encoded"
    /\ LET b == CHOOSE x \in codec.bytes : TRUE
           o == Decoded(codec.dec, b)
       IN codec' = [codec EXCEPT !.out = o,
                                 !.pc = IF o = {} THEN "decode-error" ELSE "decoded"]
    /\ UNCHANGED <<httpVars, closed, engineVars, client, appVars>>

NextCodec == Marshal \/ Unmarshal

SpecCodec == InitCodec /\ [][NextCodec]_vars

\* HTTPClientTransport.Send.  The messages a client sends: a Request, and a
\* message of an unknown type, which json.Marshal rejects.
ClientSends ==
    { m \in Unions :
        /\ m.Type \in {"request", "bogus"}
        /\ m.JsonRpcRequest \in Ptr({r \in ReqStructs : r.method = "m" /\ r.params = ""}) \ {{}}
        /\ m.JsonRpcNotification = {}
        /\ m.JsonRpcResponse = {}
        /\ m.JsonRpcError = {} }

\* The HTTP status of the reply and its body; no body is the empty set.
ReplyStatuses == {200, 500}
ReplyBodies == {{}} \cup { {b} : b \in Bodies }

\* A transport with or without a message handler and the message to send.
InitReply ==
    /\ InitTransport
    /\ impl = "HandleMessage"
    /\ \E m \in ClientSends : \E hs \in BOOLEAN :
          codec = [pc |-> "start", dec |-> "Send", msg |-> {m}, bytes |-> {},
                   out |-> {}, handler |-> hs, status |-> 0, calls |-> 0,
                   ret |-> ""]
    /\ InitEngine
    /\ InitClient
    /\ InitApp

\* What Send does with the reply: the error for a status other than 200,
\* nothing for an empty body, else the decoding and the call of the
\* handler, if there is one, with the message of the kind found.
Received(c, status, reply) ==
    IF status # 200
    THEN [c EXCEPT !.ret = "server returned error"]
    ELSE IF reply = {}
    THEN [c EXCEPT !.ret = "nil"]
    ELSE LET b == CHOOSE x \in reply : TRUE
             kind == KindClient(b)
         IN IF kind = "invalid"
            THEN [c EXCEPT !.ret = "received invalid response"]
            ELSE IF c.handler
            THEN [c EXCEPT !.ret = "nil", !.calls = @ + 1,
                           !.out = {[type |-> kind, id |-> IdField(b)]}]
            ELSE [c EXCEPT !.ret = "nil"]

\* Send: json.Marshal, the POST, and the reply the server gives.
ClientSend(status, reply) ==
    /\ codec.pc = "start"
    /\ codec.dec = "Send"
    /\ LET m == CHOOSE x \in codec.msg : TRUE IN
         codec' =
            IF MarshalJSON(m) = {}
            THEN [codec EXCEPT !.pc = "returned", !.ret = "failed to marshal message"]
            ELSE Received([codec EXCEPT !.pc = "returned", !.status = status,
                                        !.bytes = reply], status, reply)
    /\ UNCHANGED <<httpVars, closed, engineVars, client, appVars>>

NextReply == \E st \in ReplyStatuses : \E reply \in ReplyBodies : ClientSend(st, reply)

SpecReply == InitReply /\ [][NextReply]_vars


\* ------------------------------------------------------------------ Close
\* Part 3: Close() and the close callback of the HTTP transports
\* (BaseTransport, baseTransport, ChiTransport, GinTransport, HTTPTransport,
\* HTTPClientTransport have the same body).

\* SetCloseHandler: the callback is stored under the exclusive lock.  The
\* model registers it before the first Close().
SetCloseHandler ==
    /\ ~crashed
    /\ ~closed.handlerSet
    /\ closed.calls = 0
    /\ CanLock
    /\ closed' = [closed EXCEPT !.handlerSet = TRUE]
    /\ UNCHANGED <<httpVars, codec, engineVars, client, appVars>>

\* Close: "if t.CloseHandler != nil { t.CloseHandler() }; return nil".  It
\* touches neither the slot table nor a response channel.
Close ==
    /\ ~crashed
    /\ closed.calls < MaxCloses
    /\ closed' = [closed EXCEPT
          !.calls = @ + 1,
          !.callbacks = IF closed.handlerSet THEN @ + 1 ELSE @]
    /\ UNCHANGED <<httpVars, codec, engineVars, client, appVars>>

\* Bodies that are requests.
RequestBodies == { b \in BridgeBodies : RuleKind(b) = "request" }

\* The steps of the goroutines that are running.
StepsClose == Steps /\ UNCHANGED <<codec, closed, engineVars, client, appVars>>

\* One HTTP call that posts a request, Send calls, and Close() calls.
NextClose ==
    \/ /\ \E b \in RequestBodies : HandlerEntry(1, "POST", b)
       /\ UNCHANGED <<codec, closed, engineVars, client, appVars>>
    \/ /\ \E s \in Senders : \E m \in SendMsgs : SendStart(s, m)
       /\ UNCHANGED <<codec, closed, engineVars, client, appVars>>
    \/ StepsClose
    \/ SetCloseHandler
    \/ Close

\* A goroutine that can run does run (the Go scheduler); nothing obliges the
\* callers of the entry point, of Send and of Close.
SpecClose == Init /\ [][NextClose]_vars /\ WF_vars(StepsClose)


\* --------------------------------------------------- the Protocol Engine
\* Part 4: the Protocol Engine (internal/protocol), which Client and Server
\* call (protocol.NewProtocol, Connect, Request).  Its
\* behaviour is taken from the design: Request allocates a fresh id,
\* registers a PendingRequest, sends, and waits on the rendezvous slot until
\* the matching Response/Error arrives or the context is cancelled; an
\* inbound Response/Error is delivered to the PendingRequest of its id or
\* dropped; an inbound Request goes to the handler registered for its method.

\* The id a new Request gets, and the counter after the allocation.
FreshId(e) == e.nextId
\* (a counter that is not advanced)
NextIdStuck(e) == e.nextId
NextIdAfter(e) == e.nextId + 1

\* The caller whose rendezvous slot the pending table holds for the id.
\* (a lookup that ignores the id)
TargetAny(p, id) == p[CHOOSE k \in DOMAIN p : TRUE]
Target(p, id) == p[id]

\* The pending table after the wait of the request with this id was cancelled.
\* (a cancellation that leaves the entry in the table)
OrphanKept(p, id) == p
Orphan(p, id) == MapDelete(p, id)

\* Request, up to the registration: a fresh id and the PendingRequest.
Allocate(c) ==
    /\ rq[c].pc = "idle"
    /\ IF c = 1 THEN TRUE ELSE rq[c - 1].pc # "idle"
    /\ LET id == FreshId(engine) IN
         /\ engine' = [engine EXCEPT !.nextId = NextIdAfter(engine),
                                     !.allocs = Append(@, id),
                                     !.pending = MapPut(@, id, c)]
         /\ rq' = [rq EXCEPT ![c] = [@ EXCEPT !.pc = "registered", !.id = id]]
    /\ UNCHANGED <<httpVars, codec, closed, serve, client, appVars>>

\* Request: Transport.Send of the serialized Request; the caller then waits.
TransportSend(c) ==
    /\ rq[c].pc = "registered"
    /\ engine' = [engine EXCEPT !.sent = @ \cup {rq[c].id}]
    /\ rq' = [rq EXCEPT ![c].pc = "waiting"]
    /\ UNCHANGED <<httpVars, codec, closed, serve, client, appVars>>

\* The replies the peer has sent so far.
Made ==
    engine.inbox \cup engine.dropped \cup { d[1] : d \in engine.delivered }

\* The peer sends a Response or an Error for a Request it has received, or
\* for the id 0 that no Request carries; replies may arrive in any order and
\* more than once.
Reply(id, kind) ==
    /\ id \in engine.sent \cup {0}
    /\ Cardinality(Made) < MaxReplies
    /\ LET n == Cardinality({ r \in Made : r.id = id }) + 1 IN
         engine' = [engine EXCEPT !.inbox = @ \cup {[kind |-> kind, id |-> id, n |-> n]}]
    /\ UNCHANGED <<httpVars, codec, closed, rq, serve, client, appVars>>

\* The outcome a caller gets from a reply: the result, or RemoteError.
OutcomeOf(r) ==
    [kind |-> IF r.kind = "response" THEN "result" ELSE "remote", id |-> r.id, n |-> r.n]

\* Dispatch of an inbound Response/Error: deliver it to the PendingRequest of
\* its id and remove the entry, or drop it when there is none.
Dispatch(r) ==
    /\ r \in engine.inbox
    /\ IF r.id \in DOMAIN engine.pending
       THEN LET c == Target(engine.pending, r.id) IN
            /\ engine' = [engine EXCEPT !.inbox = @ \ {r},
                                        !.pending = MapDelete(@, r.id),
                                        !.delivered = @ \cup {<<r, c>>}]
            /\ rq' = [rq EXCEPT ![c] = [@ EXCEPT !.pc = "done", !.out = OutcomeOf(r)]]
       ELSE /\ engine' = [engine EXCEPT !.inbox = @ \ {r}, !.dropped = @ \cup {r}]
            /\ rq' = rq
    /\ UNCHANGED <<httpVars, codec, closed, serve, client, appVars>>

\* The context of a waiting Request is cancelled or times out: the call
\* fails with CancelledError and its PendingRequest is orphaned.
Cancel(c) ==
    /\ rq[c].pc = "waiting"
    /\ rq[c].id \in DOMAIN engine.pending
    /\ engine' = [engine EXCEPT !.pending = Orphan(@, rq[c].id)]
    /\ rq' = [rq EXCEPT ![c] =
          [@ EXCEPT !.pc = "done", !.cancelled = TRUE,
                    !.out = [kind |-> "cancelled", id |-> 0, n |-> 0]]]
    /\ UNCHANGED <<httpVars, codec, closed, serve, client, appVars>>

NextEngine ==
    \/ \E c \in Reqs : Allocate(c)
    \/ \E c \in Reqs : TransportSend(c)
    \/ \E id \in 0..NReqs : \E k \in {"response", "error"} : Reply(id, k)
    \/ \E r \in engine.inbox : Dispatch(r)
    \/ \E c \in Reqs : Cancel(c)

SpecEngine == Init /\ [][NextEngine]_vars

\* RegisterRequestHandler: the method is bound to a handler; registering it
\* again replaces the handler.
RegisterRequestHandler(m) ==
    /\ serve' = [serve EXCEPT !.registry = @ \cup {m}]
    /\ UNCHANGED <<httpVars, codec, closed, engine, rq, client, appVars>>

\* The binding of the method is removed.
DeregisterRequestHandler(m) ==
    /\ m \in serve.registry
    /\ serve' = [serve EXCEPT !.registry = @ \ {m}]
    /\ UNCHANGED <<httpVars, codec, closed, engine, rq, client, appVars>>

\* The transport hands the engine a Request of the peer.
Inbound(i, m) ==
    /\ serve.inreq[i].pc = "none"
    /\ serve' = [serve EXCEPT !.inreq[i] = [@ EXCEPT !.pc = "arrived", !.method = m]]
    /\ UNCHANGED <<httpVars, codec, closed, engine, rq, client, appVars>>

\* What the engine sends for a Request whose method has no handler.
\* (an unknown method that is ignored, as an unknown notification is)
NotFoundSilent(i) == << >>
NotFoundReplies(i) ==
    << [kind |-> "error", id |-> i, code |-> "method not found"] >>

\* What the engine sends after the handler has run: its result as a
\* Response, or its failure as an Error with the internal-error code.
HandlerReplies(i, ok) ==
    IF ok THEN << [kind |-> "response", id |-> i, code |-> ""] >>
    ELSE << [kind |-> "error", id |-> i, code |-> "internal error"] >>

\* Dispatch of an inbound Request: look the handler up by method; invoke it
\* and send its result, or send "method not found".
DispatchRequest(i, ok) ==
    /\ serve.inreq[i].pc = "arrived"
    /\ LET m == serve.inreq[i].method
           found == m \in serve.registry
       IN serve' = [serve EXCEPT
             !.inreq[i] = [@ EXCEPT !.pc = "dispatched", !.found = found],
             !.invoked = IF found THEN @ \cup {<<i, m>>} ELSE @,
             !.outbox = @ \o (IF found THEN HandlerReplies(i, ok) ELSE NotFoundReplies(i))]
    /\ UNCHANGED <<httpVars, codec, closed, engine, rq, client, appVars>>

NextServe ==
    \/ \E m \in Methods : RegisterRequestHandler(m)
    \/ \E m \in Methods : DeregisterRequestHandler(m)
    \/ \E i \in InIds : \E m \in Methods : Inbound(i, m)
    \/ \E i \in InIds : \E ok \in BOOLEAN : DispatchRequest(i, ok)

SpecServe == Init /\ [][NextServe]_vars



\* ------------------------------------------------------------ the Client

\* What protocol.Request and the decoding of its result can come to.
ClientOutcomes == {"ok", "error", "badtype", "badjson"}

\* A Request and a Notification as the Client hands them to the engine.
RequestSent(method) == [kind |-> "request", method |-> method]
NotificationSent(method) == [kind |-> "notification", method |-> method]

\* The error Initialize returns for an outcome of its Request.
InitializeError(o) ==
    CASE o = "ok"      -> ""
      [] o = "error"   -> "failed to initialize"
      [] o = "badtype" -> "invalid response type"
      [] o = "badjson" -> "failed to unmarshal initialize response"

\* The error an API method returns for an outcome of its Request.
ApiError(o) ==
    CASE o = "ok"      -> ""
      [] o = "error"   -> "request failed"
      [] o = "badtype" -> "invalid response type"
      [] o = "badjson" -> "failed to unmarshal response"

\* "if c.initialized" at the head of Initialize.
AlreadyInitializedIgnored(c) == FALSE
AlreadyInitialized(c) == c.initialized

\* Initialize up to the point where the initialize Request is on its way:
\* the check of the flag, protocol.Connect, protocol.Request.
Initialize(conn) ==
    /\ client.pc = "idle"
    /\ client.inits < MaxInits
    /\ client' =
          IF AlreadyInitialized(client)
          THEN [client EXCEPT !.inits = @ + 1,
                              !.err = "client already initialized"]
          ELSE IF ~conn
          THEN [client EXCEPT !.inits = @ + 1, !.connects = @ + 1,
                              !.err = "failed to connect transport"]
          ELSE [client EXCEPT !.inits = @ + 1, !.connects = @ + 1,
                              !.pc = "awaiting", !.err = "",
                              !.sent = Append(@, RequestSent("initialize"))]
    /\ UNCHANGED <<httpVars, codec, closed, engineVars, appVars>>

\* The capabilities a server can answer with.
ServerCapabilities == {"caps1", "caps2"}

\* Initialize reaches "c.capabilities = ...; c.initialized = true" when the
\* Request returned bytes that decode.
SucceededAlways(o) == TRUE
Succeeded(o) == o = "ok"

\* Initialize from the return of protocol.Request to its own return.
InitializeReturn(o, caps) ==
    /\ client.pc = "awaiting"
    /\ client' =
          IF Succeeded(o)
          THEN [client EXCEPT !.pc = "idle", !.capabilities = caps,
                              !.initialized = TRUE, !.err = InitializeError(o)]
          ELSE [client EXCEPT !.pc = "idle", !.err = InitializeError(o)]
    /\ UNCHANGED <<httpVars, codec, closed, engineVars, appVars>>

\* "if !c.initialized" at the head of every API method.
NotInitializedIgnored(c) == FALSE
NotInitialized(c) == ~c.initialized

\* An API method: refused before initialization, one Request otherwise.
ApiCall(method, o) ==
    /\ Len(client.sent) < MaxSent
    /\ client' =
          IF NotInitialized(client)
          THEN [client EXCEPT !.err = "client not initialized"]
          ELSE [client EXCEPT !.sent = Append(@, RequestSent(method)),
                              !.err = ApiError(o)]
    /\ UNCHANGED <<httpVars, codec, closed, engineVars, appVars>>

ListTools(o) == ApiCall("tools/list", o)
CallTool(o) == ApiCall("tools/call", o)
ListPrompts(o) == ApiCall("prompts/list", o)
GetPrompt(o) == ApiCall("prompts/get", o)
ListResources(o) == ApiCall("resources/list", o)
ReadResource(o) == ApiCall("resources/read", o)
Ping(o) == ApiCall("ping", o)

NextClient ==
    \/ \E conn \in BOOLEAN : Initialize(conn)
    \/ \E o \in ClientOutcomes : \E caps \in ServerCapabilities :
          InitializeReturn(o, caps)
    \/ \E o \in ClientOutcomes : ListTools(o)
    \/ \E o \in ClientOutcomes : CallTool(o)
    \/ \E o \in ClientOutcomes : ListPrompts(o)
    \/ \E o \in ClientOutcomes : GetPrompt(o)
    \/ \E o \in ClientOutcomes : ListResources(o)
    \/ \E o \in ClientOutcomes : ReadResource(o)
    \/ \E o \in {"ok", "error"} : Ping(o)

SpecClient == Init /\ [][NextClient]_vars


\* ------------------------------------------------------- the Server registry

\* The names registered in a registry.
KeysIn(S) == {e.key : e \in S}

\* s.tools[name] = &ToolType{...}: the entry under the name is replaced.
\* (a registration that stacks on the earlier one)
PutStacked(S, e) == S \cup {e}
Put(S, e) == {x \in S : x.key # e.key} \cup {e}

\* The registry without the entry under the name.
Remove(S, k) == {x \in S : x.key # k}

\* The method of the Notification that tells the peer a registry changed.
ListChanged(kind) == "notifications/" \o kind \o "/list_changed"

\* What the server has sent after a successful mutation of a registry.
\* (a mutation that is not broadcast)
BroadcastNever(r, kind) == r.sent
Broadcast(r, kind) ==
    IF r.serving /\ kind \in r.caps
    THEN Append(r.sent, ListChanged(kind))
    ELSE r.sent

\* A mutation of a registry ends the list result and traversal it was made on.
LastAfter(r, kind) == IF r.last.kind = kind THEN NoList ELSE r.last
WalkAfter(r, kind) ==
    IF kind = "tools" THEN [r.walk EXCEPT !.stale = TRUE] ELSE r.walk

\* Serve: the server starts serving and advertises list_changed for each kind.
Serve ==
    /\ registry' =
          IF registry.serving
          THEN [registry EXCEPT !.err = "already serving"]
          ELSE [registry EXCEPT !.serving = TRUE, !.caps = Kinds, !.err = ""]
    /\ UNCHANGED <<httpVars, codec, closed, engineVars, client, sse, stdio, validated>>

\* Register*: a handler whose argument type has no schema is refused;
\* otherwise the entry is put and the change is broadcast.
Register(kind, key, desc, valid) ==
    /\ registry.calls < MaxMuts
    /\ registry' =
          IF ~valid
          THEN [registry EXCEPT !.calls = @ + 1, !.err = "invalid handler"]
          ELSE [registry EXCEPT
                   !.calls = @ + 1, !.err = "",
                   !.items[kind] = Put(@, [key |-> key, desc |-> desc]),
                   !.latest[kind][key] = desc,
                   !.muts = IF registry.serving THEN Append(@, kind) ELSE @,
                   !.sent = Broadcast(registry, kind),
                   !.last = LastAfter(registry, kind),
                   !.walk = WalkAfter(registry, kind)]
    /\ UNCHANGED <<httpVars, codec, closed, engineVars, client, sse, stdio, validated>>

\* Deregister* of a name that is not registered.
\* (the absent name is deleted and the change broadcast all the same)
DeregisterAbsentNotified(r, kind) ==
    [r EXCEPT !.calls = @ + 1, !.err = "", !.sent = Broadcast(r, kind)]
DeregisterAbsent(r, kind) ==
    [r EXCEPT !.calls = @ + 1, !.err = "NotFoundError"]

\* Deregister*: the entry is removed and the change is broadcast.
Deregister(kind, key) ==
    /\ registry.calls < MaxMuts
    /\ registry' =
          IF key \notin KeysIn(registry.items[kind])
          THEN DeregisterAbsent(registry, kind)
          ELSE [registry EXCEPT
                   !.calls = @ + 1, !.err = "",
                   !.items[kind] = Remove(@, key),
                   !.latest[kind][key] = "",
                   !.muts = IF registry.serving THEN Append(@, kind) ELSE @,
                   !.sent = Broadcast(registry, kind),
                   !.last = LastAfter(registry, kind),
                   !.walk = WalkAfter(registry, kind)]
    /\ UNCHANGED <<httpVars, codec, closed, engineVars, client, sse, stdio, validated>>

RegisterTool(key, desc, valid) == Register("tools", key, desc, valid)
RegisterPrompt(key, desc, valid) == Register("prompts", key, desc, valid)
RegisterResource(key, desc, valid) == Register("resources", key, desc, valid)
DeregisterTool(key) == Deregister("tools", key)
DeregisterPrompt(key) == Deregister("prompts", key)
DeregisterResource(key) == Deregister("resources", key)

\* server.paginationLimit = &limit
SetPaginationLimit(n) ==
    /\ registry.limit # {n}
    /\ registry' = [registry EXCEPT !.limit = {n}, !.last = NoList,
                                    !.walk = [@ EXCEPT !.stale = TRUE]]
    /\ UNCHANGED <<httpVars, codec, closed, engineVars, client, sse, stdio, validated>>

\* The orders in which the names of a registry can be collected.
Perms(S) ==
    {s \in [1..Cardinality(S) -> S] :
        \A i, j \in 1..Cardinality(S) : i # j => s[i] # s[j]}

\* The sequence with the name inserted at its place in lexicographic order.
Insert(s, k) ==
    LET Below(x) == x < k
        NotBelow(x) == ~(x < k)
    IN SelectSeq(s, Below) \o <<k>> \o SelectSeq(s, NotBelow)

\* The names sorted lexicographically.
RECURSIVE Sort(_)
Sort(s) == IF s = << >> THEN << >> ELSE Insert(Sort(Tail(s)), Head(s))

\* The cursors a list call can carry: none, a name, or a name never registered.
Cursors == {{}} \cup {{k} : k \in Keys \cup {0}}

\* A cursor is valid only if it is the name of a registered item.
\* (any cursor is taken)
CursorAccepted(keys, cursor) == TRUE
ValidCursor(keys, cursor) == cursor \subseteq keys

\* The sorted names strictly greater than the cursor.
After(sorted, cursor) ==
    IF cursor = {}
    THEN sorted
    ELSE LET c == CHOOSE c \in cursor : TRUE
             Greater(x) == x > c
         IN SelectSeq(sorted, Greater)

\* Up to limit names from the front.
Take(s, limit) ==
    IF limit = {}
    THEN s
    ELSE LET n == CHOOSE n \in limit : TRUE
         IN SubSeq(s, 1, IF n < Len(s) THEN n ELSE Len(s))

\* The cursor of the next page: the last returned name if names remain.
\* (the last returned name always)
NextCursorAlways(page, rest) ==
    IF Len(page) > 0 THEN {page[Len(page)]} ELSE {}
NextCursor(page, rest) ==
    IF Len(page) < Len(rest) THEN {page[Len(page)]} ELSE {}

\* The result of a list call on the sorted names.
PageOf(kind, sorted, cursor, limit) ==
    LET rest == After(sorted, cursor)
        page == Take(rest, limit)
    IN [kind |-> kind, cursor |-> cursor, err |-> "", page |-> page,
        next |-> NextCursor(page, rest)]

\* The traversal of a client that follows nextCursor from the start.
Followed(w, cursor, res) ==
    IF cursor = {}
    THEN [active |-> TRUE, stale |-> FALSE, seen |-> res.page,
          next |-> res.next, done |-> (res.next = {})]
    ELSE IF w.active /\ ~w.done /\ cursor = w.next
    THEN [w EXCEPT !.seen = @ \o res.page, !.next = res.next,
                   !.done = (res.next = {})]
    ELSE w

\* A list call: the names are collected in some order, sorted, and one page
\* is cut out after the cursor.
handleList(kind, cursor, perm) ==
    /\ perm \in Perms(KeysIn(registry.items[kind]))
    /\ registry' =
          IF ~ValidCursor(KeysIn(registry.items[kind]), cursor)
          THEN [registry EXCEPT
                   !.last = [kind |-> kind, cursor |-> cursor,
                             err |-> "InvalidCursorError", page |-> << >>,
                             next |-> {}]]
          ELSE LET res == PageOf(kind, Sort(perm), cursor, registry.limit)
               IN [registry EXCEPT
                      !.last = res,
                      !.walk = IF kind = "tools"
                               THEN Followed(@, cursor, res) ELSE @]
    /\ UNCHANGED <<httpVars, codec, closed, engineVars, client, sse, stdio, validated>>

handleListTools(cursor, perm) == handleList("tools", cursor, perm)

\* The orders any registry's names can be collected in.
Orders == UNION {Perms(K) : K \in SUBSET Keys}

NextRegistry ==
    \/ Serve
    \/ \E k \in Keys, d \in Descs, v \in BOOLEAN : RegisterTool(k, d, v)
    \/ \E k \in Keys, d \in Descs, v \in BOOLEAN : RegisterPrompt(k, d, v)
    \/ \E k \in Keys, d \in Descs, v \in BOOLEAN : RegisterResource(k, d, v)
    \/ \E k \in Keys : DeregisterTool(k)
    \/ \E k \in Keys : DeregisterPrompt(k)
    \/ \E k \in Keys : DeregisterResource(k)

SpecRegistry == Init /\ [][NextRegistry]_vars

\* Tools are registered and deregistered, and listed page by page.
NextPaging ==
    \/ \E k \in Keys : RegisterTool(k, "d1", TRUE)
    \/ \E k \in Keys : DeregisterTool(k)
    \/ \E n \in 1..MaxLimit : SetPaginationLimit(n)
    \/ \E c \in Cursors, p \in Orders : handleListTools(c, p)

\* A server on which some tools were registered before it is observed.
InitPaging ==
    /\ InitTransport
    /\ codec = IdleCodec
    /\ InitEngine
    /\ InitClient
    /\ InitSse
    /\ InitStdio
    /\ InitValidated
    /\ \E K \in SUBSET Keys :
          registry = [NewServer EXCEPT
                         !.items["tools"] = {[key |-> k, desc |-> "d1"] : k \in K},
                         !.latest["tools"] =
                             [k \in Keys |-> IF k \in K THEN "d1" ELSE ""]]

SpecPaging == InitPaging /\ [][NextPaging]_vars


\* ------------------------------------------------- the event-stream host

\* The companion POST route of the host.
postEndpoint == "/sse"

\* The session identifier a new transport generates.
\* (every transport takes the same identifier)
SameSessionId(t) == 1
FreshSessionId(t) == t

\* The events Start writes on the stream: the handshake.
\* (a stream that opens without a handshake)
NoHandshake(path, id) == << >>
Handshake(path, id) ==
    << [event |-> "endpoint", path |-> path, sessionId |-> id, msg |-> 0] >>

\* The event Send writes for a message.
MessageEvent(q) == [event |-> "message", path |-> "", sessionId |-> 0, msg |-> q]

\* What HandlePostMessage returns: "" when the message was handed on.
HandlePostResult(method, ctype, body) ==
    IF method # "POST" THEN "method not allowed"
    ELSE IF ctype # "application/json" THEN "unsupported Content type"
    ELSE IF body = "invalid" THEN "invalid message"
    ELSE ""

\* The transport after HandlePostMessage was called on it with POST q.
AfterPost(tr, q, method, ctype, body) ==
    LET res == HandlePostResult(method, ctype, body)
    IN [tr EXCEPT
           !.handled = IF res = "" THEN Append(@, q) ELSE @,
           !.errors = IF res = "invalid message" THEN @ + 1 ELSE @]

\* The session table with the transport stored under its identifier.
Stored(table, id, t) ==
    [i \in DOMAIN table \cup {id} |-> IF i = id THEN t ELSE table[i]]

\* The transport the next stream gets.
NextTransport(t) ==
    /\ sse.tr[t].pc = "none"
    /\ IF t = 1 THEN TRUE ELSE sse.tr[t - 1].pc # "none"

\* The POST that is made next.
NextPost(q) ==
    /\ sse.post[q].pc = "none"
    /\ IF q = 1 THEN TRUE ELSE sse.post[q - 1].pc # "none"

\* A transport created on a response writer and started by server.Serve.
StartedTransport(t) ==
    [NoTransport EXCEPT !.pc = "started", !.id = FreshSessionId(t),
                        !.stream = Handshake(postEndpoint, FreshSessionId(t))]

\* ServeHTTP for a request that is no POST to the endpoint: a transport and
\* a server are created on the response and served.
ServeHTTPOpen(t) ==
    /\ NextTransport(t)
    /\ sse' = [sse EXCEPT !.tr[t] = StartedTransport(t)]
    /\ UNCHANGED <<httpVars, codec, closed, engineVars, client, registry, stdio, validated>>

\* ServeHTTP goes on: the transport is stored in sessionList and the call
\* waits for the end of the request.
ServeHTTPStore(t) ==
    /\ sse.tr[t].pc = "started"
    /\ sse' = [sse EXCEPT !.tr[t].pc = "stored",
                          !.table = Stored(@, sse.tr[t].id, t)]
    /\ UNCHANGED <<httpVars, codec, closed, engineVars, client, registry, stdio, validated>>

\* The request of the stream is done (the client went away): ServeHTTP
\* returns.
ServeHTTPReturn(t) ==
    /\ sse.tr[t].pc = "stored"
    /\ sse' = [sse EXCEPT !.tr[t].pc = "gone"]
    /\ UNCHANGED <<httpVars, codec, closed, engineVars, client, registry, stdio, validated>>

\* ServeHTTP for a POST to the endpoint without a session identifier.
ServeHTTPNoSession(q) ==
    /\ NextPost(q)
    /\ sse' = [sse EXCEPT !.post[q] = [NoPost EXCEPT !.pc = "done",
                                                     !.status = 400]]
    /\ UNCHANGED <<httpVars, codec, closed, engineVars, client, registry, stdio, validated>>

\* ServeHTTP for a POST by the client of stream t, who took the session
\* identifier from the endpoint event: a session found in sessionList gets
\* the POST and the answer is 202; otherwise the POST is served as a new
\* stream.
ServeHTTPPost(q, t, ctype, body) ==
    /\ NextPost(q)
    /\ Len(sse.tr[t].stream) > 0
    /\ sse.tr[t].stream[1].event = "endpoint"
    /\ LET sid == sse.tr[t].stream[1].sessionId
           bad == HandlePostResult("POST", ctype, body) # ""
       IN IF sid \in DOMAIN sse.table
          THEN LET u == sse.table[sid]
               IN sse' = [sse EXCEPT
                     !.tr[u] = AfterPost(@, q, "POST", ctype, body),
                     !.post[q] =
                         [pc |-> "done", to |-> t, sid |-> sid,
                          status |-> 202,
                          err |-> HandlePostResult("POST", ctype, body),
                          bad |-> bad,
                          dispatched |-> IF bad THEN {} ELSE {u}]]
          ELSE \E n \in Sess :
                  /\ NextTransport(n)
                  /\ sse' = [sse EXCEPT
                        !.tr[n] = StartedTransport(n),
                        !.post[q] =
                            [pc |-> "done", to |-> t, sid |-> sid,
                             status |-> 200, err |-> "", bad |-> bad,
                             dispatched |-> {}]]
    /\ UNCHANGED <<httpVars, codec, closed, engineVars, client, registry, stdio, validated>>

\* HandlePostMessage called on a started transport directly.
HandlePostMessage(q, t, method, ctype, body) ==
    /\ NextPost(q)
    /\ sse.tr[t].pc \in {"started", "stored"}
    /\ LET res == HandlePostResult(method, ctype, body)
       IN sse' = [sse EXCEPT
             !.tr[t] = AfterPost(@, q, method, ctype, body),
             !.post[q] =
                 [pc |-> "done", to |-> t, sid |-> sse.tr[t].id,
                  status |-> 0, err |-> res, bad |-> (res # ""),
                  dispatched |-> IF res = "" THEN {t} ELSE {}]]
    /\ UNCHANGED <<httpVars, codec, closed, engineVars, client, registry, stdio, validated>>

\* Send of the reply to a POSTed Request by the server of the transport.
SseSend(t, q) ==
    /\ \E i \in 1..Len(sse.tr[t].handled) : sse.tr[t].handled[i] = q
    /\ q \notin sse.replied
    /\ sse' = [sse EXCEPT
          !.replied = @ \cup {q},
          !.tr[t] = IF sse.tr[t].pc = "gone"
                    THEN [@ EXCEPT !.sendErr = "SessionClosedError"]
                    ELSE [@ EXCEPT !.stream = Append(@, MessageEvent(q))]]
    /\ UNCHANGED <<httpVars, codec, closed, engineVars, client, registry, stdio, validated>>

ContentTypes == {"application/json", "text/plain"}
PostBodies == {"request", "invalid"}

NextSse ==
    \/ \E t \in Sess : ServeHTTPOpen(t)
    \/ \E t \in Sess : ServeHTTPStore(t)
    \/ \E t \in Sess : ServeHTTPReturn(t)
    \/ \E q \in Posts : ServeHTTPNoSession(q)
    \/ \E q \in Posts, t \in Sess, c \in ContentTypes, b \in PostBodies :
          ServeHTTPPost(q, t, c, b)
    \/ \E q \in Posts, t \in Sess :
          HandlePostMessage(q, t, "GET", "application/json", "request")
    \/ \E t \in Sess, q \in Posts : SseSend(t, q)

\* One host; the bridge of the stateless-HTTP transport plays no part.
InitSseHost == Init /\ impl = "HandleMessage"

SpecSse == InitSseHost /\ [][NextSse]_vars


\* ---------------------------------------------------------- validateStruct
\* A struct value is the sequence of its fields; a field has its mcp tag,
\* its kind, the length of its value (a string) and its fields (a struct).
\* A tag is the sequence of its comma-separated "key:value" parts, empty
\* for a field without mcp tag; the value of a validation part tells
\* whether it contains "maxLength" and the number the pattern
\* maxLength\((\d+)\) finds in it (none: -1).
NoTag == <<>>
DescTag == <<[key |-> "description", val |-> "description"]>>
MaxTag(n) ==
    DescTag \o <<[key |-> "validation", val |-> [maxLength |-> TRUE, digits |-> n]]>>

\* parseTag: the map of the parts, a later part of the same key wins.
parseTag(tag) ==
    [k \in {tag[i].key : i \in DOMAIN tag} |->
        LET last == CHOOSE i \in DOMAIN tag :
                       /\ tag[i].key = k
                       /\ \A j \in DOMAIN tag : tag[j].key = k => j <= i
        IN tag[last].val]

\* extractMaxLength: the number in the rule, 0 when the pattern finds none.
extractMaxLength(validation) ==
    IF validation.digits >= 0 THEN validation.digits ELSE 0

\* "if tag == "" { continue }": a field without mcp tag is passed over,
\* whatever its kind.
SkipsUntagged(f) == f.tag = NoTag

\* validateStruct, from field i on: the error, "" for nil.
RECURSIVE validateFrom(_, _)
validateFrom(v, i) ==
    IF i > Len(v) THEN ""
    ELSE LET f == v[i] IN
         IF SkipsUntagged(f) THEN validateFrom(v, i + 1)
         ELSE LET tagMap == parseTag(f.tag)
                  tooLong ==
                      /\ "validation" \in DOMAIN tagMap
                      /\ tagMap["validation"].maxLength
                      /\ f.kind = "string"
                      /\ f.len > extractMaxLength(tagMap["validation"])
              IN IF tooLong THEN "exceeds maximum length"
                 ELSE IF f.kind = "struct" /\ validateFrom(f.fields, 1) # ""
                 THEN validateFrom(f.fields, 1)
                 ELSE validateFrom(v, i + 1)

validateStruct(v) == validateFrom(v, 1)

\* The argument values: string fields with and without a maxLength(MaxLen)
\* rule, holding values of length 0..MaxLen+1, and struct fields, with and
\* without mcp tag, of one such string field (HelloType in
\* MyFunctionsArguments).
StringFields ==
    [tag : {NoTag, MaxTag(MaxLen)}, kind : {"string"}, len : 0..(MaxLen + 1),
     fields : {<<>>}]
StructFields ==
    [tag : {NoTag, DescTag}, kind : {"struct"}, len : {0},
     fields : {<<f>> : f \in StringFields}]
ArgStructs ==
    LET F == StringFields \cup StructFields
    IN {<<f>> : f \in F} \cup {<<f, g>> : f \in F, g \in F}

\* validateStruct(v) is called and returns.
Validate(v) ==
    /\ validated.pc = "idle"
    /\ validated' = [pc |-> "returned", arg |-> v, err |-> validateStruct(v)]
    /\ UNCHANGED <<httpVars, codec, closed, engineVars, client, registry, sse, stdio>>

NextValidate == \E v \in ArgStructs : Validate(v)

SpecValidate == InitSseHost /\ [][NextValidate]_vars

\* ------------------------------------------------------- the StdioClient

\* A line that is no JSON text.
NotJSON == [json |-> FALSE, long |-> FALSE, method |-> "", id |-> 0]

\* The messages a caller sends: Params is a json.RawMessage, which may hold
\* bytes that are no JSON ("bad"), or a document of more than 64 KiB ("big").
ParamKinds == {"ok", "bad", "big"}
StdioIds == {[type |-> "int", value |-> 1], [type |-> "int", value |-> 2]}
StdioMsgs ==
    {[method |-> "test", id |-> i, params |-> p] : i \in StdioIds, p \in ParamKinds}

\* json.Marshal(message) returns an error when Params is no JSON.
MarshalFails(m) == m.params = "bad"

\* json.Marshal(message) plus '\n': one line; the number on the wire has no
\* Go type.
MarshalLine(m) ==
    [json |-> TRUE, long |-> m.params = "big", method |-> m.method,
     id |-> m.id.value]

\* The lines a child writes.
Lines == {NotJSON} \cup {MarshalLine(m) : m \in {n \in StdioMsgs : ~MarshalFails(n)}}

\* bufio.NewScanner: a line longer than bufio.MaxScanTokenSize makes Scan
\* return false.
TooLong(line) == line.long

\* json.Unmarshal(scanner.Bytes(), &message): ID is an interface{}, a JSON
\* number is decoded as a float64.
UnmarshalLine(line) ==
    [method |-> line.method, id |-> [type |-> "float64", value |-> line.id]]

\* Some process still holds the write end of the child's stdout.
StdoutHeld == stdio.child = "running" \/ stdio.desc

\* The child starts a process of its own, which inherits its pipes.
ChildForks ==
    /\ stdio.child = "running"
    /\ ~stdio.desc
    /\ stdio' = [stdio EXCEPT !.desc = TRUE]
    /\ UNCHANGED <<httpVars, codec, closed, engineVars, client, registry, sse, validated>>

\* That process ends.
DescendantExits ==
    /\ stdio.desc
    /\ stdio' = [stdio EXCEPT !.desc = FALSE]
    /\ UNCHANGED <<httpVars, codec, closed, engineVars, client, registry, sse, validated>>

\* The child ends by itself.
ChildExits ==
    /\ stdio.child = "running"
    /\ stdio' = [stdio EXCEPT !.child = "exited"]
    /\ UNCHANGED <<httpVars, codec, closed, engineVars, client, registry, sse, validated>>

\* The child writes a line on its stdout.
ChildWrites(line) ==
    /\ stdio.child = "running"
    /\ Len(stdio.produced) < MaxLines
    /\ stdio' = [stdio EXCEPT !.out = Append(@, line),
                              !.produced = Append(@, line)]
    /\ UNCHANGED <<httpVars, codec, closed, engineVars, client, registry, sse, validated>>

\* The child of the echo test: it writes the next line of its stdin on its
\* stdout.
ChildEchoes ==
    /\ stdio.child = "running"
    /\ stdio.echoed < Len(stdio.written)
    /\ Len(stdio.produced) < MaxLines
    /\ stdio' = [stdio EXCEPT !.out = Append(@, stdio.written[stdio.echoed + 1]),
                              !.produced = Append(@, stdio.written[stdio.echoed + 1]),
                              !.echoed = @ + 1]
    /\ UNCHANGED <<httpVars, codec, closed, engineVars, client, registry, sse, validated>>

\* exec.CommandContext: the child is killed once the context is done.
KillOnCancel ==
    /\ stdio.ctx = "done"
    /\ stdio.child = "running"
    /\ stdio' = [stdio EXCEPT !.child = "exited"]
    /\ UNCHANGED <<httpVars, codec, closed, engineVars, client, registry, sse, validated>>

\* scanner.Scan(): a line is read, or the loop ends: at a line that is too
\* long, and at the end of the stream, seen once no process holds the write
\* end; otherwise the read blocks.
ReaderScan ==
    /\ stdio.reader = "scan"
    /\ \/ /\ stdio.out # <<>>
          /\ stdio' =
                IF TooLong(Head(stdio.out))
                THEN [stdio EXCEPT !.reader = "exit"]
                ELSE [stdio EXCEPT !.out = Tail(@), !.hand = Head(stdio.out),
                                   !.reader = "check"]
       \/ /\ stdio.out = <<>>
          /\ ~StdoutHeld
          /\ stdio' = [stdio EXCEPT !.reader = "exit"]
    /\ UNCHANGED <<httpVars, codec, closed, engineVars, client, registry, sse, validated>>

\* select on ctx.Done() with default: the line is decoded; a line that is
\* no JSON is skipped.
ReaderCheck ==
    /\ stdio.reader = "check"
    /\ stdio' = [stdio EXCEPT
          !.reader = IF stdio.ctx = "done" THEN "exit"
                     ELSE IF stdio.hand.json THEN "send" ELSE "scan"]
    /\ UNCHANGED <<httpVars, codec, closed, engineVars, client, registry, sse, validated>>

\* select: case <-ctx.Done() while the message waits for a receiver.
ReaderCancelled ==
    /\ stdio.reader = "send"
    /\ stdio.ctx = "done"
    /\ stdio' = [stdio EXCEPT !.reader = "exit"]
    /\ UNCHANGED <<httpVars, codec, closed, engineVars, client, registry, sse, validated>>

\* select: case readChan <- message, the user receives.
UserReads ==
    /\ stdio.reader = "send"
    /\ stdio' = [stdio EXCEPT !.reader = "scan",
                              !.delivered = Append(@, UnmarshalLine(stdio.hand))]
    /\ UNCHANGED <<httpVars, codec, closed, engineVars, client, registry, sse, validated>>

\* The writer's defers: stdin.Close(), close(writeChan), wg.Done().
WriterReturns(s) ==
    [s EXCEPT !.writer = "exit", !.stdin = "closed", !.wchan = "closed"]

\* select: case <-ctx.Done() in the writer.
WriterCancelled ==
    /\ stdio.writer = "select"
    /\ stdio.ctx = "done"
    /\ stdio' = WriterReturns(stdio)
    /\ UNCHANGED <<httpVars, codec, closed, engineVars, client, registry, sse, validated>>

\* select: case message := <-writeChan, the user sends; json.Marshal; on an
\* error the writer goes back to the select, otherwise on to stdin.Write.
UserWrites(m) ==
    /\ stdio.writer = "select"
    /\ Len(stdio.taken) < MaxWrites
    /\ stdio' = [stdio EXCEPT !.taken = Append(@, m), !.whand = m,
                              !.writer = IF MarshalFails(m) THEN "select"
                                         ELSE "write"]
    /\ UNCHANGED <<httpVars, codec, closed, engineVars, client, registry, sse, validated>>

\* writeChan <- message once the writer has closed the channel: a send on a
\* closed channel, the runtime panics (so does a send that was blocked when
\* the channel was closed).
UserWritesClosed ==
    /\ stdio.wchan = "closed"
    /\ ~stdio.panic
    /\ stdio' = [stdio EXCEPT !.panic = TRUE]
    /\ UNCHANGED <<httpVars, codec, closed, engineVars, client, registry, sse, validated>>

\* stdin.Write returns without error: the pipe took the data.
WriteCompletes ==
    /\ stdio.writer = "write"
    /\ stdio.stdin = "open"
    /\ StdoutHeld
    /\ stdio' = [stdio EXCEPT !.writer = "select",
                              !.written = Append(@, MarshalLine(stdio.whand))]
    /\ UNCHANGED <<httpVars, codec, closed, engineVars, client, registry, sse, validated>>

\* stdin.Write fails: stdin was closed or nobody holds the read end; the
\* writer returns.
WriteFails ==
    /\ stdio.writer = "write"
    /\ stdio.stdin = "closed" \/ ~StdoutHeld
    /\ stdio' = WriterReturns(stdio)
    /\ UNCHANGED <<httpVars, codec, closed, engineVars, client, registry, sse, validated>>

\* Close: c.cancel()
CloseCancel ==
    /\ stdio.close = "idle"
    /\ stdio' = [stdio EXCEPT !.close = "stdin", !.ctx = "done"]
    /\ UNCHANGED <<httpVars, codec, closed, engineVars, client, registry, sse, validated>>

\* Close: c.stdin.Close(); closing a file the writer has closed already
\* gives an error on some builds, and Close returns it at once.
CloseStdin(twice) ==
    /\ stdio.close = "stdin"
    /\ stdio' =
          IF stdio.stdin = "closed" /\ twice
          THEN [stdio EXCEPT !.close = "done", !.err = "failed to close stdin"]
          ELSE [stdio EXCEPT !.close = "wait", !.stdin = "closed"]
    /\ UNCHANGED <<httpVars, codec, closed, engineVars, client, registry, sse, validated>>

\* Close: c.wg.Wait() returns when both goroutines are done.
CloseWait ==
    /\ stdio.close = "wait"
    /\ stdio.reader = "exit"
    /\ stdio.writer = "exit"
    /\ stdio' = [stdio EXCEPT !.close = "kill"]
    /\ UNCHANGED <<httpVars, codec, closed, engineVars, client, registry, sse, validated>>

\* Close: c.cmd.Process.Kill()
CloseKill ==
    /\ stdio.close = "kill"
    /\ stdio' = [stdio EXCEPT !.close = "cmdwait", !.child = "exited"]
    /\ UNCHANGED <<httpVars, codec, closed, engineVars, client, registry, sse, validated>>

\* Close: c.cmd.Wait() and return.
CloseCmdWait ==
    /\ stdio.close = "cmdwait"
    /\ stdio.child = "exited"
    /\ stdio' = [stdio EXCEPT !.close = "done"]
    /\ UNCHANGED <<httpVars, codec, closed, engineVars, client, registry, sse, validated>>

\* The steps of the reader goroutine, of the writer goroutine, and of Close
\* once it was called, that need nobody else.
ReaderSteps == ReaderScan \/ ReaderCheck \/ ReaderCancelled
WriterSteps == WriterCancelled \/ WriteFails
CloseSteps ==
    (\E tw \in BOOLEAN : CloseStdin(tw)) \/ CloseWait \/ CloseKill \/ CloseCmdWait

\* Close against a child that writes short lines and a caller that sends
\* messages that can be encoded.
PlainMsgs == {m \in StdioMsgs : m.params = "ok" /\ m.id.value = 1}
PlainLines == {NotJSON} \cup {MarshalLine(m) : m \in PlainMsgs}

NextStdio ==
    \/ ChildForks
    \/ DescendantExits
    \/ ChildExits
    \/ \E line \in PlainLines : ChildWrites(line)
    \/ KillOnCancel
    \/ ReaderSteps
    \/ UserReads
    \/ WriterSteps
    \/ \E m \in PlainMsgs : UserWrites(m)
    \/ WriteCompletes
    \/ CloseCancel
    \/ CloseSteps

\* Every goroutine that can take a step of its own takes it in the end.
SpecStdio ==
    /\ InitSseHost
    /\ [][NextStdio]_vars
    /\ WF_vars(ReaderSteps)
    /\ WF_vars(WriterSteps)
    /\ WF_vars(CloseSteps)
    /\ WF_vars(KillOnCancel)

\* The read loop against a child that writes lines of every kind, until
\* Close cancels the context.
NextReader ==
    \/ ChildExits
    \/ \E line \in Lines : ChildWrites(line)
    \/ ReaderSteps
    \/ UserReads
    \/ CloseCancel

SpecReader == InitSseHost /\ [][NextReader]_vars

\* The write loop against the echoing child, with Close.
NextWriter ==
    \/ ChildExits
    \/ ChildEchoes
    \/ KillOnCancel
    \/ ReaderSteps
    \/ UserReads
    \/ WriterSteps
    \/ \E m \in StdioMsgs : UserWrites(m)
    \/ UserWritesClosed
    \/ WriteCompletes
    \/ CloseCancel
    \/ CloseSteps

SpecWriter == InitSseHost /\ [][NextWriter]_vars

\* ---------------------------------------------------------------- claims
\* A call that has started as the POST of a body.
Posted(h) == call[h].pc # "idle" /\ call[h].httpMethod = "POST"

\* A call that has started and whose entry point has not returned.
InFlight(h) == call[h].pc \notin {"idle", "done"}

\* Every Send so far is a Response that answers a request the handler has
\* received, with that request's slot id, and no request is answered twice.
AnsweredOnce ==
    \A s \in Senders :
        snd[s].pc # "idle" =>
            /\ snd[s].msg.type = "response"
            /\ snd[s].msg.for # NoCall
            /\ \A r \in Senders \ {s} :
                   snd[r].pc # "idle" => snd[r].msg.for # snd[s].msg.for

\* Every call so far is the POST of a request.
OnlyRequests ==
    \A h \in Calls :
        call[h].pc # "idle" => Posted(h) /\ RuleKind(call[h].body) = "request"

\* C1: when N concurrent HTTP calls post requests and the handler answers
\* each of them once through Send with the slot id, every call that returns
\* returns status 200 with the response produced for its own request,
\* carrying the request's client id, no call waits on a channel that does not
\* exist, and the slot table is empty once all calls have returned.
C1_Correlated ==
    (OnlyRequests /\ AnsweredOnce) =>
        /\ \A h \in Calls :
               call[h].pc = "done" =>
                   /\ call[h].status = 200
                   /\ call[h].resp.type = "response"
                   /\ call[h].resp.for = h
                   /\ call[h].resp.id = call[h].body.id
        /\ \A h \in Calls : call[h].pc = "recv" => call[h].ch # NilChan
        /\ (\A h \in Calls : ~InFlight(h)) => DOMAIN responseMap = {}

\* C2: in every state where no HTTP call is in progress the slot table is
\* empty (every slot a call inserts is removed by the time the call returns).
C2_Released ==
    (\A h \in Calls : ~InFlight(h)) => DOMAIN responseMap = {}

\* The call posts a request and holds a slot.
HoldsSlot(h) ==
    /\ Posted(h)
    /\ RuleKind(call[h].body) = "request"
    /\ call[h].key # NoKey

\* C3: no two in-flight calls that post requests hold the same slot.
C3_DistinctSlots ==
    \A g, h \in Calls :
        (g # h /\ HoldsSlot(g) /\ HoldsSlot(h)) => call[g].key # call[h].key

\* Every key of the probe range 0..MaxKey-1 is in the slot table.
RangeFull == \A k \in 0..(MaxKey - 1) : k \in DOMAIN responseMap

\* C4: when every slot of the probe range is occupied, the allocation step of
\* a further call that posts a request fails: the call ends with an error status, the slot table
\* is unchanged and the handler is not invoked.
C4_Exhaustion ==
    [][\A h \in Calls :
          (/\ call[h].pc = "probe"
           /\ RuleKind(call[h].body) = "request"
           /\ RangeFull
           /\ call'[h].pc # "probe")
              => /\ responseMap' = responseMap
                 /\ call'[h].pc = "done"
                 /\ call'[h].status \notin {0, 200}
                 /\ call'[h].delivered = <<>>]_vars

\* The call waits (or is about to wait) for the reply to the request it gave
\* the handler under slot k.
Waiting(h, k) ==
    /\ RuleKind(call[h].body) = "request"
    /\ call[h].pc \in {"wait", "recv"}
    /\ call[h].key = k
    /\ call[h].prevId # NoId

\* C5: a Send of a Response or of an Error whose id is the slot of a waiting
\* call succeeds: it does not panic and does not return an error.
C5_SendSucceeds ==
    \A s \in Senders : \A h \in Calls :
        (snd[s].msg.for = h /\ Waiting(h, snd[s].msg.id))
            => snd[s].pc \notin {"panic", "err"}

\* C6: the call of a Notification, Response or Error body never takes a
\* slot and never waits for a Send; the handler receives at most one message
\* and it has the body's kind; the call returns 200 with no reply message.
C6_NoSlot ==
    \A h \in Calls :
        (Posted(h) /\ RuleKind(call[h].body) \in {"notification", "response", "error"})
            => /\ call[h].key = NoKey
               /\ call[h].pc \notin {"wait", "recv"}
               /\ Len(call[h].delivered) <= 1
               /\ \A i \in 1..Len(call[h].delivered) :
                      call[h].delivered[i].type = RuleKind(call[h].body)
               /\ call[h].pc = "done" => call[h].status = 200 /\ call[h].resp = NoMsg

\* The channels some call can still receive from: those in the slot table
\* and those a call is blocked on.
Live ==
    { responseMap[k] : k \in DOMAIN responseMap }
    \cup { call[h].ch : h \in { g \in Calls : call[g].pc = "recv" } }

\* C7: when Send is called more than once with the slot id of a request,
\* none of the Sends blocks forever (none is left sending on a channel no
\* call can receive from), and no call returns a message that was sent for
\* the request of another call.
C7_ExactlyOnce ==
    OnlyRequests =>
        /\ \A s \in Senders : snd[s].pc = "sending" => snd[s].ch \in Live
        /\ \A h \in Calls :
               (call[h].pc = "done" /\ call[h].resp.for # NoCall)
                   => call[h].resp.for = h

\* C8: every access to the slot table is made inside the mutex.
C8_Guarded ==
    \A p \in Procs : Access(p) # "none" => Locked(p)

\* C9: for a body to which the discrimination rule gives a kind, the
\* message handler receives a message of exactly that kind.
C9_Discrimination ==
    \A h \in Calls :
        RuleKind(call[h].body) # "invalid" =>
            \A i \in 1..Len(call[h].delivered) :
                call[h].delivered[i].type = RuleKind(call[h].body)

\* C10: a call whose method is not POST ends with 405, a POST of bytes that
\* are not JSON ends with 400; neither invokes the handler nor waits on a
\* response channel.
C10_Rejected ==
    \A h \in Calls :
        /\ (call[h].pc # "idle" /\ call[h].httpMethod # "POST")
               => /\ call[h].pc = "done"
                  /\ call[h].status = 405
                  /\ call[h].delivered = <<>>
        /\ (Posted(h) /\ ~call[h].body.json)
               => /\ call[h].delivered = <<>>
                  /\ call[h].pc \notin {"wait", "recv", "chsend"}
                  /\ call[h].pc = "done" => call[h].status = 400

\* C11: when the body of a call is a Request, every message its handler
\* receives is a Request with the body's method and params (the id alone may
\* be rewritten, to the slot), and a call that has handed the request to the
\* handler and has returned has answered with status 200.
C11_RequestPreserved ==
    \A h \in Calls :
        (Posted(h) /\ RuleKind(call[h].body) = "request")
            => /\ \A i \in 1..Len(call[h].delivered) :
                      /\ call[h].delivered[i].type = "request"
                      /\ call[h].delivered[i].method = call[h].body.method
                      /\ call[h].delivered[i].params = call[h].body.params
               /\ (call[h].pc = "done" /\ call[h].delivered # <<>>)
                      => call[h].status = 200

\* The variants of the union that are set.
VariantsSet(m) ==
    { t \in MessageTypes :
        \/ t = "request" /\ m.JsonRpcRequest # {}
        \/ t = "notification" /\ m.JsonRpcNotification # {}
        \/ t = "response" /\ m.JsonRpcResponse # {}
        \/ t = "error" /\ m.JsonRpcError # {} }

\* Exactly the variant named by Type is set.
WellFormed(m) == VariantsSet(m) = {m.Type}

\* A well-formed message as the flat record a decoder yields.
Flat(m) ==
    IF m.Type = "request"
    THEN LET r == CHOOSE x \in m.JsonRpcRequest : TRUE IN
         [type |-> "request", id |-> r.id, method |-> r.method,
          params |-> r.params, result |-> "", code |-> 0]
    ELSE IF m.Type = "notification"
    THEN LET r == CHOOSE x \in m.JsonRpcNotification : TRUE IN
         [type |-> "notification", id |-> NoId, method |-> r.method,
          params |-> r.params, result |-> "", code |-> 0]
    ELSE IF m.Type = "response"
    THEN LET r == CHOOSE x \in m.JsonRpcResponse : TRUE IN
         [type |-> "response", id |-> r.id, method |-> "",
          params |-> "", result |-> r.result, code |-> 0]
    ELSE LET r == CHOOSE x \in m.JsonRpcError : TRUE IN
         [type |-> "error", id |-> r.id, method |-> "",
          params |-> "", result |-> "", code |-> r.code]

\* C12: a well-formed message of any of the four kinds is encoded without
\* error, and every decoder gives back a message of the same kind with the
\* same id, method, params, result and error.
C12_RoundTrip ==
    \A m \in codec.msg :
        WellFormed(m) =>
            /\ codec.pc \notin {"encode-error", "decode-error"}
            /\ codec.pc = "decoded" => codec.out = {Flat(m)}

\* C13: MarshalJSON of a malformed union (no variant, several variants, a
\* variant other than the one Type names, or an unknown Type) fails and
\* yields no bytes.
C13_EncodeError ==
    \A m \in codec.msg :
        (~WellFormed(m) /\ codec.pc # "start")
            => codec.pc = "encode-error" /\ codec.bytes = {}

\* C14: once Close() has been called on a transport with a registered close
\* callback, the callback has been invoked exactly once, however many
\* Close() calls were made.
C14_CloseOnce ==
    (closed.handlerSet /\ closed.calls >= 1) => closed.callbacks = 1

\* C17: a call that is suspended on its response channel when Close() has
\* been called is eventually unblocked and returns (or the process has
\* stopped).
C17_CloseUnblocks ==
    \A h \in Calls :
        (closed.calls > 0 /\ call[h].pc = "recv")
            ~> (call[h].pc = "done" \/ crashed)

\* The Request of the caller is outstanding.
Outstanding(c) == rq[c].pc \in {"registered", "waiting"}

\* Every reply that was delivered went to the caller whose Request has the
\* reply's id, and that caller holds its outcome.
DeliveredToOwner ==
    \A d \in engine.delivered :
        /\ rq[d[2]].id = d[1].id
        /\ rq[d[2]].out = OutcomeOf(d[1])

\* C15: each Request returns the result or RemoteError of the reply that
\* carries its own id; no reply is delivered to two callers and no caller is
\* given two replies, whatever the order in which the replies arrive.
C15_OwnReply ==
    /\ DeliveredToOwner
    /\ \A d, e \in engine.delivered :
           /\ d[1] = e[1] => d[2] = e[2]
           /\ d[2] = e[2] => d[1] = e[1]
    /\ \A c \in Reqs :
           rq[c].out.kind \in {"result", "remote"}
               => /\ rq[c].out.id = rq[c].id
                  /\ \E d \in engine.delivered : d[2] = c

\* Two Requests were outstanding together and both were resolved, one by a
\* Response and one by an Error.
C15_Witness ==
    \E c, d \in Reqs :
        /\ c # d
        /\ rq[c].out.kind = "result"
        /\ rq[d].out.kind = "remote"

\* C16: a Request whose wait was cancelled has failed with CancelledError and
\* stays so; its PendingRequest is gone, no reply with its id is delivered to
\* any caller, an inbound reply can always be dispatched, and the replies
\* that are delivered go to the callers that own them.
C16_CancelDiscards ==
    /\ \A c \in Reqs :
           rq[c].cancelled
               => /\ rq[c].pc = "done"
                  /\ rq[c].out.kind = "cancelled"
                  /\ rq[c].id \notin DOMAIN engine.pending
                  /\ \A d \in engine.delivered : d[1].id # rq[c].id
    /\ \A r \in engine.inbox : ENABLED Dispatch(r)
    /\ DeliveredToOwner

\* A Request was cancelled, a reply for it arrived afterwards and was
\* dropped, and another Request got its result.
C16_Witness ==
    \E c, d \in Reqs :
        /\ c # d
        /\ rq[c].cancelled
        /\ \E r \in engine.dropped : r.id = rq[c].id
        /\ rq[d].out.kind \in {"result", "remote"}

\* C18: the ids are strictly increasing in allocation order, and the
\* Requests that are outstanding have pairwise distinct ids.
C18_FreshIds ==
    /\ \A i, j \in 1..Len(engine.allocs) :
           i < j => engine.allocs[i] < engine.allocs[j]
    /\ \A c, d \in Reqs :
           (c # d /\ Outstanding(c) /\ Outstanding(d)) => rq[c].id # rq[d].id

\* Every caller has allocated an id and two Requests are outstanding.
C18_Witness ==
    /\ Len(engine.allocs) = NReqs
    /\ \E c, d \in Reqs : c # d /\ Outstanding(c) /\ Outstanding(d)

\* The messages the engine has sent that carry the id.
SentFor(i) ==
    LET Mine(o) == o.id = i IN SelectSeq(serve.outbox, Mine)

\* C19: an inbound Request whose method has no handler is answered with
\* exactly one Error that carries its id and "method not found", no handler
\* is invoked for it, and a Request that has arrived can always be
\* dispatched.
C19_MethodNotFound ==
    /\ \A i \in InIds :
           (serve.inreq[i].pc = "dispatched" /\ ~serve.inreq[i].found)
               => /\ SentFor(i) = << [kind |-> "error", id |-> i,
                                      code |-> "method not found"] >>
                  /\ \A m \in Methods : <<i, m>> \notin serve.invoked
    /\ \A i \in InIds :
           serve.inreq[i].pc = "arrived"
               => ENABLED (\E ok \in BOOLEAN : DispatchRequest(i, ok))

\* A Request for a method without a handler was dispatched while another
\* method had one.
C19_Witness ==
    \E i \in InIds :
        /\ serve.inreq[i].pc = "dispatched"
        /\ ~serve.inreq[i].found
        /\ serve.registry # {}

\* C20: once Initialize has succeeded, the Client has sent the initialize
\* Request and, directly after it and before any other Request, exactly one
\* notifications/initialized Notification.
C20_InitializedNotified ==
    client.initialized
        => /\ \E i \in 1..(Len(client.sent) - 1) :
                  /\ client.sent[i] = RequestSent("initialize")
                  /\ client.sent[i + 1] = NotificationSent("notifications/initialized")
           /\ Cardinality({i \in 1..Len(client.sent) :
                  client.sent[i] = NotificationSent("notifications/initialized")}) = 1

\* The names of a sequence are in strictly increasing lexicographic order.
StrictlyIncreasing(s) == \A i, j \in 1..Len(s) : i < j => s[i] < s[j]

\* The names a sequence holds.
Range(s) == {s[i] : i \in 1..Len(s)}

\* The names of the tools registered now.
ToolKeys == KeysIn(registry.items["tools"])

\* C21: with a limit of at least 1, a tools/list call returns the up-to-limit
\* smallest names strictly greater than the cursor (from the smallest name
\* without a cursor), in order, and nextCursor is the last returned name
\* exactly when greater names remain; a traversal that followed nextCursor
\* from the start to a page without one has seen every registered tool
\* exactly once, in sorted order.
C21_Pagination ==
    LET L == registry.last
        G == IF L.cursor = {}
             THEN ToolKeys
             ELSE {k \in ToolKeys : \A c \in L.cursor : k > c}
        lim == CHOOSE n \in registry.limit : TRUE
        n == IF lim < Cardinality(G) THEN lim ELSE Cardinality(G)
    IN registry.limit # {} =>
          /\ (L.kind = "tools" /\ L.err = "") =>
                /\ Len(L.page) = n
                /\ StrictlyIncreasing(L.page)
                /\ Range(L.page) \subseteq G
                /\ \A g \in G \ Range(L.page) :
                       \A x \in Range(L.page) : x < g
                /\ L.next = IF n < Cardinality(G) THEN {L.page[n]} ELSE {}
          /\ (registry.walk.done /\ ~registry.walk.stale) =>
                /\ StrictlyIncreasing(registry.walk.seen)
                /\ Range(registry.walk.seen) = ToolKeys

\* Every name is registered, the limit is below their number, and a
\* traversal of more than one page has come to its end.
C21_Witness ==
    /\ ToolKeys = Keys
    /\ registry.limit # {}
    /\ \A n \in registry.limit : n < NKeys
    /\ registry.walk.done
    /\ ~registry.walk.stale
    /\ registry.last.cursor # {}
    /\ Len(registry.walk.seen) = NKeys

\* C22: a tools/list call whose cursor is not the name of a registered tool
\* fails with InvalidCursorError and returns no page and no nextCursor.
C22_InvalidCursor ==
    LET L == registry.last
    IN (L.kind = "tools" /\ ~(L.cursor \subseteq ToolKeys))
          => /\ L.err = "InvalidCursorError"
             /\ L.page = << >>
             /\ L.next = {}

\* A page returned a nextCursor, the tool of that name was deregistered,
\* and the call that carried the cursor failed while other tools remain.
C22_Witness ==
    /\ registry.walk.active
    /\ registry.walk.stale
    /\ registry.walk.next # {}
    /\ registry.last.cursor = registry.walk.next
    /\ registry.last.err = "InvalidCursorError"
    /\ ToolKeys # {}

\* C23: what the server has sent is exactly one list_changed Notification
\* of the matching kind per successful mutation made after Serve, in the
\* order of the mutations.
C23_ListChanged ==
    registry.sent =
        [i \in 1..Len(registry.muts) |-> ListChanged(registry.muts[i])]

\* After Serve a tool was registered and deregistered again.
C23_Witness ==
    /\ registry.serving
    /\ registry.muts = <<"tools", "tools">>
    /\ registry.items["tools"] = {}
    /\ registry.err = ""

\* C24: a registry holds at most one entry per name, and the entry under a
\* name is the one of the last registration of that name.
C24_LastRegistrationWins ==
    \A kind \in Kinds :
        /\ \A k \in Keys :
               /\ Cardinality({e \in registry.items[kind] : e.key = k}) <= 1
               /\ registry.latest[kind][k] # ""
                      => k \in KeysIn(registry.items[kind])
        /\ \A e \in registry.items[kind] :
               e.desc = registry.latest[kind][e.key]

\* A name was registered twice, the second time with another description.
C24_Witness ==
    \E kind \in Kinds :
        /\ registry.muts = <<kind, kind>>
        /\ registry.items[kind] = {[key |-> 1, desc |-> "d2"]}

\* C25: a Deregister* call for a name that is not registered fails with
\* NotFoundError, leaves the registries as they were and sends nothing.
C25_DeregisterAbsent ==
    [][\A kind \in Kinds, k \in Keys :
          (Deregister(kind, k) /\ k \notin KeysIn(registry.items[kind]))
              => /\ registry'.err = "NotFoundError"
                 /\ registry'.items = registry.items
                 /\ registry'.sent = registry.sent]_vars

\* While serving with an item registered, a name that is not registered was
\* deregistered.
C25_Witness ==
    /\ registry.serving
    /\ registry.err = "NotFoundError"
    /\ \E kind \in Kinds : registry.items[kind] # {}

\* The POSTs whose reply is a message event on the stream of the transport.
RepliesOn(t) ==
    {sse.tr[t].stream[i].msg :
        i \in {j \in 1..Len(sse.tr[t].stream) :
                  sse.tr[t].stream[j].event = "message"}}

\* C26: the stream of a started session begins with the endpoint event,
\* which carries the POST route and the session's identifier, and holds no
\* other endpoint event.
C26_EndpointFirst ==
    \A t \in Sess :
        sse.tr[t].pc # "none"
            => /\ Len(sse.tr[t].stream) >= 1
               /\ sse.tr[t].stream[1] =
                      [event |-> "endpoint", path |-> postEndpoint,
                       sessionId |-> sse.tr[t].id, msg |-> 0]
               /\ \A i \in 2..Len(sse.tr[t].stream) :
                      sse.tr[t].stream[i].event = "message"

\* A session was started and a reply was written on its stream.
C26_Witness ==
    \E t \in Sess :
        /\ Len(sse.tr[t].stream) >= 2
        /\ sse.tr[t].stream[2].event = "message"

C28_PostErrorsReported ==
    \A q \in Posts :
        (sse.post[q].pc = "done" /\ sse.post[q].bad)
            => /\ sse.post[q].dispatched = {}
               /\ sse.post[q].status # 202

\* C29: the session table holds no session whose stream is closed.
C29_TableTracksStreams ==
    \A id \in DOMAIN sse.table : sse.tr[sse.table[id]].pc # "gone"

\* C30: once Close was called it returns.
C30_CloseReturns == (stdio.close # "idle") ~> (stdio.close = "done")

\* The messages among lines that json.Unmarshal accepts, in order.
RECURSIVE DecodedOf(_)
DecodedOf(lines) ==
    IF lines = <<>> THEN <<>>
    ELSE IF Head(lines).json
         THEN <<UnmarshalLine(Head(lines))>> \o DecodedOf(Tail(lines))
         ELSE DecodedOf(Tail(lines))

\* The lines the read loop has not dealt with yet.
Unread ==
    IF stdio.reader \in {"check", "send"} THEN <<stdio.hand>> \o stdio.out
    ELSE stdio.out

\* C31: while the client is open, the messages delivered on the read
\* channel, followed by those of the lines not yet dealt with, are the
\* messages of the JSON lines the child wrote, in order and once each, and
\* the read loop keeps running until the end of the child's output.
C31_ReadLoop ==
    stdio.ctx = "live" =>
        /\ DecodedOf(stdio.produced) = stdio.delivered \o DecodedOf(Unread)
        /\ stdio.reader = "exit" => stdio.out = <<>> /\ ~StdoutHeld

\* The line the writer is about to write.
InWrite == IF stdio.writer = "write" THEN <<MarshalLine(stdio.whand)>> ELSE <<>>

\* C32: while the client is open and the child runs, the messages taken
\* from the write channel are on the child's stdin, one line each and in
\* the order sent (the last one may be in the write), and what the echoing
\* child sends back is delivered with the same method and id, in order.
C32_WritesInOrder ==
    stdio.ctx = "live" /\ stdio.child = "running" /\ stdio.stdin = "open" =>
        /\ [i \in 1..Len(stdio.taken) |-> MarshalLine(stdio.taken[i])]
              = stdio.written \o InWrite
        /\ Len(stdio.delivered) <= Len(stdio.taken)
        /\ \A i \in 1..Len(stdio.delivered) :
              /\ stdio.delivered[i].method = stdio.taken[i].method
              /\ stdio.delivered[i].id.value = stdio.taken[i].id.value

\* C40: no send on the write channel meets a closed channel.
C40_NoSendOnClosed == ~stdio.panic

\* C33: a call that is about to invoke the message handler does not hold
\* the mutex, and whoever holds it is at a step that needs nothing from the
\* handler (the probe, the delete, or the unlock after them): what the
\* handler calls on the same transport gets the mutex.
C33_HandlerOutsideLock ==
    /\ \A h \in Calls : call[h].pc = "invoke" => mu # h
    /\ mu # NoProc =>
          mu \in Calls /\ call[mu].pc \in {"probe", "unlock", "delete", "dunlock"}

\* A handler is being invoked while a nested call of the same transport
\* holds the mutex.
C33_Witness ==
    \E h \in Calls :
        /\ call[h].pc = "invoke"
        /\ call[h].handler
        /\ mu \in Calls \ {h}

\* C34: after Send got a reply: with status 200 and a body to which the
\* discrimination rule gives the kind error, response or notification, the
\* handler was called once with a message of that kind; with status 200 and
\* no body no handler was called and Send returned nil; with another status
\* Send returned an error and no handler was called.
C34_ClientSend ==
    codec.pc = "returned" /\ codec.status # 0 /\ codec.handler =>
        /\ (codec.status = 200 /\ codec.bytes # {}) =>
              \A b \in codec.bytes :
                  RuleKind(b) \in {"error", "response", "notification"} =>
                      /\ codec.calls = 1
                      /\ \A o \in codec.out : o.type = RuleKind(b)
        /\ (codec.status = 200 /\ codec.bytes = {}) =>
              codec.calls = 0 /\ codec.ret = "nil"
        /\ codec.status # 200 =>
              codec.calls = 0 /\ codec.ret = "server returned error"

\* C35: a Send whose message carries an id that has no entry in the slot
\* table does not panic when it starts, and its lookup ends in the error,
\* with the slot table and every HTTP call as they were.
C35_SendUnknownId ==
    [][\A s \in Senders :
          /\ (snd[s].pc = "idle" /\ snd'[s].pc # "idle"
                 /\ snd'[s].msg.id \notin DOMAIN responseMap)
                => snd'[s].pc \in {"lookup", "err"}
          /\ (snd[s].pc = "lookup" /\ snd'[s].pc # "lookup"
                 /\ snd[s].msg.id \notin DOMAIN responseMap)
                => /\ snd'[s].pc = "err"
                   /\ responseMap' = responseMap
                   /\ call' = call]_vars

\* C36: a step of a Client that is not initialized, other than a step of
\* Initialize, ends with "client not initialized", sends nothing and leaves
\* the flag, the capabilities and the connection as they were.
C36_NotInitialized ==
    [][(/\ ~client.initialized
        /\ client' # client
        /\ client'.inits = client.inits
        /\ client'.pc = client.pc)
          => /\ client'.err = "client not initialized"
             /\ client'.sent = client.sent
             /\ client'.initialized = client.initialized
             /\ client'.capabilities = client.capabilities
             /\ client'.connects = client.connects]_vars

\* An API method was refused while Initialize was waiting for its reply.
C36_Witness ==
    /\ ~client.initialized
    /\ client.err = "client not initialized"
    /\ client.pc = "awaiting"

\* C37: Initialize on an initialized Client ends with "client already
\* initialized", does not connect, sends nothing and leaves the flag and
\* the capabilities as they were.
C37_AlreadyInitialized ==
    [][(client.initialized /\ client'.inits = client.inits + 1)
          => /\ client'.err = "client already initialized"
             /\ client'.connects = client.connects
             /\ client'.sent = client.sent
             /\ client'.capabilities = client.capabilities
             /\ client'.initialized
             /\ client'.pc = "idle"]_vars

\* Initialize was refused on an initialized Client.
C37_Witness ==
    /\ client.initialized
    /\ client.err = "client already initialized"
    /\ client.inits = 2
    /\ client.connects = 1

\* C38: an initialized Client has capabilities, and an Initialize that
\* fails leaves the flag false and the capabilities as they were.
C38_InitializedHasCapabilities ==
    /\ [](client.initialized => client.capabilities # "nil")
    /\ [][(client'.inits > client.inits \/ client.pc = "awaiting")
            /\ client'.err # "" /\ ~client.initialized
              => /\ ~client'.initialized
                 /\ client'.capabilities = client.capabilities]_vars

\* Initialize has succeeded after an Initialize that failed at its Request.
C38_Witness ==
    /\ client.initialized
    /\ client.capabilities # "nil"
    /\ Cardinality({i \in 1..Len(client.sent) :
                      client.sent[i] = RequestSent("initialize")}) = 2

\* Some string field with a maxLength rule, in the struct or in a struct
\* field of it at any depth, holds a value longer than the rule allows.
RECURSIVE Exceeds(_)
Exceeds(v) ==
    \E i \in DOMAIN v :
        \/ /\ v[i].kind = "string"
           /\ "validation" \in DOMAIN parseTag(v[i].tag)
           /\ parseTag(v[i].tag)["validation"].maxLength
           /\ v[i].len > parseTag(v[i].tag)["validation"].digits
        \/ /\ v[i].kind = "struct"
           /\ Exceeds(v[i].fields)

\* C39: validateStruct returns an error exactly for the argument values in
\* which some string field with a maxLength(n) rule, at any depth, is
\* longer than n.
C39_MaxLength ==
    validated.pc = "returned" =>
        (validated.err # "" <=> Exceeds(validated.arg))

====
